---------------------------- MODULE Spec2Model ----------------------------
(***************************************************************************)
(* Model of the Firebird -> PostgreSQL translation engine:                 *)
(*   SQLGenerator  (src/sql_generator.py)                                  *)
(*   DataMigrator  (src/data_migrator.py)                                  *)
(*   FirebirdClient (src/firebird_client.py), as the schema/data provider  *)
(*   SchemaConverter (src/schema_converter.py)                             *)
(*   SQLConverter  (src/sql_converter.py)                                  *)
(*   ProgressManager (src/progress_manager.py)                             *)
(*                                                                         *)
(* Specifications:                                                         *)
(*   SpecSort    _sort_tables_by_dependencies, one loop pass per step      *)
(*   SpecMigrate migrate_table_data, one page per step                     *)
(*   Spec        generate_complete_sql, one stage per step                 *)
(*   SpecData    _generate_data_sql, one table per step                    *)
(*   SpecRuns    several calls of generate_complete_sql on one database    *)
(*   SpecSerialize  one value rendered by the INSERT and the COPY writers  *)
(*   SpecMapType    one call of SchemaConverter.map_data_type              *)
(*   SpecTranspile  one call of SQLConverter.convert_sql_script            *)
(*   SpecSchema     the statements SchemaConverter emits for one table     *)
(*   SpecScan       _remove_comments_preserve_strings, one pass per step   *)
(*   SpecInsert     generate_insert_statements, one chunk per step         *)
(*   SpecSortCycle  _sort_tables_by_dependencies on graphs with a cycle    *)
(*   SpecCount      the row counts of the diagnostics for one table        *)
(*   SpecProgress   the calls of a ProgressManager in any order            *)
(***************************************************************************)
EXTENDS Integers, Sequences, FiniteSets, TLC

(***************************************************************************)
(* Bounds of the model.                                                    *)
(***************************************************************************)
SortMaxTables == 3      \* tables handed to _sort_tables_by_dependencies
SortMaxFks == 3         \* foreign keys in the whole graph handed to the sort
MigMaxBatch == 5        \* configured page sizes 1..MigMaxBatch (migrate_table_data)
MigMaxRows == 9         \* row counts 0..MigMaxRows (migrate_table_data)
MigMaxFailCall == 2     \* the provider call that raises, 0 for none
RunMaxTables == 2       \* tables of the database of a generate_complete_sql run
RunMaxFks == 2          \* foreign keys of that database
RunMaxRows == 1         \* rows of a table of that database that is not empty
RunBatch == 4           \* batch_size of the SQLGenerator of the runs
MaxTextLen == 3         \* characters of a text value handed to the serializer
MaxInt == 11            \* integer values -1..MaxInt handed to the serializer
MaxTypeArg == 2          \* length, precision and -scale of a column: 0..MaxTypeArg
MaxRuns == 2             \* calls of generate_complete_sql over one database

(***************************************************************************)
(* Program constants.                                                      *)
(***************************************************************************)
MaxChunk == 500         \* generate_insert_statements: min(500, batch_size // 4)
ChunkDivisor == 4
MaxShownWarnings == 5
NumericType == 64       \* the type code of NUMERIC/DECIMAL columns   \* migrate_table_data: warnings[:5]

VARIABLES
    \* ---- provider contents (FirebirdClient) ----
    tables,             \* get_tables(): the list of table names, in name order
    foreign_keys,       \* table -> set of target tables of its foreign keys
    schema_fails,       \* tables whose get_table_schema raises
    row_count,          \* table -> COUNT(*) of the table
    fetch_fail_at,      \* table -> the get_table_data_batch call that raises (0: none)
    generators,         \* get_generators(): the current value of each generator
    views,              \* get_views(): per view "def" | "nodef" | "raises"
    \* ---- SQLGenerator ----
    batch_size,
    include_data,
    stats,              \* self.stats
    components,         \* generate_complete_sql: the components gathered so far
    result,             \* the text generate_complete_sql returned
    connection,         \* firebird_client.connection: "none" | "open"
    handle,             \* the fdb connection behind it: "none" | "open" | "closed"
    requests,           \* provider operations called during the run
    pc,                 \* position in generate_complete_sql
    \* ---- _sort_tables_by_dependencies locals ----
    table_dependencies, \* table -> dependencies kept by the first loop
    sorted_tables,      \* the list being built
    remaining_tables,   \* set(tables) minus the placed ones
    iteration,          \* passes of the while loop so far
    max_iterations,     \* len(tables) * 2
    cycle_logged,       \* logger.warning("Possível dependência circular ...") was called
    sort_pc,            \* "build" | "loop" | "returned" | "off"
    \* ---- DataMigrator.migrate_table_data ----
    mig_args,           \* the call's arguments, the configuration and the table's rows
    mig,                \* the call's locals and its position
    \* ---- _generate_data_sql locals ----
    data,               \* [sql |-> data_sql, stats |-> stats]
    data_idx,           \* tables of sorted_tables the for loop has gone through
    data_pc,            \* "sort" | "loop" | "returned" | "off"
    \* ---- the interpreter process and the calls made in it ----
    runs,               \* calls of generate_complete_sql started so far
    object_calls,       \* calls made on the present SQLGenerator object
    previous,           \* what the call before the present one returned
    set_order,          \* the order this process iterates set(tables) in, once seen
    \* ---- one call of a function of the value and text converters ----
    call,               \* the arguments of the call
    ret                 \* what the call has returned so far

providerVars == <<tables, foreign_keys, schema_fails, row_count, fetch_fail_at,
                  generators, views>>
configVars == <<batch_size, include_data>>
runVars == <<stats, components, result, connection, handle, requests, pc>>
sortVars == <<table_dependencies, sorted_tables, remaining_tables, iteration,
              max_iterations, cycle_logged, sort_pc>>
migVars == <<mig_args, mig>>
dataVars == <<data, data_idx, data_pc>>
processVars == <<runs, object_calls, previous, set_order>>
callVars == <<call, ret>>
vars == <<providerVars, configVars, runVars, sortVars, migVars, dataVars, processVars,
          callVars>>

(***************************************************************************)
(* Helpers on sets and sequences.                                          *)
(***************************************************************************)
Range(s) == {s[i] : i \in 1..Len(s)}

\* every subset of S with at most k elements
RECURSIVE SubsetsUpTo(_, _)
SubsetsUpTo(S, k) ==
    IF k = 0 \/ S = {} THEN {{}}
    ELSE LET x == CHOOSE y \in S : TRUE
             rest == SubsetsUpTo(S \ {x}, k)
         IN  rest \cup {T \cup {x} : T \in SubsetsUpTo(S \ {x}, k - 1)}

\* every order in which the elements of a Python set can be iterated
RECURSIVE Orders(_)
Orders(S) ==
    IF S = {} THEN {<<>>}
    ELSE UNION {{<<x>> \o s : s \in Orders(S \ {x})} : x \in S}

\* position of x in the list s (0 when absent)
Pos(s, x) == IF x \in Range(s) THEN CHOOSE i \in 1..Len(s) : s[i] = x ELSE 0

\* how often x occurs in the list s
Occurrences(s, x) == Cardinality({i \in 1..Len(s) : s[i] = x})

(***************************************************************************)
(* Provider contents.  Table names are 1..n in the order get_tables        *)
(* returns them; the target 0 stands for a table outside the list (or an   *)
(* empty target_table).  A table whose schema lookup raises delivers no    *)
(* foreign keys at all.                                                    *)
(***************************************************************************)
ProviderGraphs(n, maxFks) ==
    { [t \in 1..n |-> {e[2] : e \in {d \in E : d[1] = t}}] :
        E \in SubsetsUpTo((1..n) \X (0..n), maxFks) }

(***************************************************************************)
(* SQLGenerator._sort_tables_by_dependencies                               *)
(***************************************************************************)
\* lines 317-331: dependencies of one table; [] when the lookup raises
DependenciesNoFilter(t, tbls, fks, fails) ==
    IF t \in fails THEN {} ELSE fks[t]

Dependencies(t, tbls, fks, fails) ==
    IF t \in fails THEN {}
    ELSE {target \in fks[t] : target # 0 /\ target \in Range(tbls) /\ target # t}

\* lines 344-348: the tables none of whose dependencies is still remaining
ReadyTablesIgnoringDeps(remaining, deps) == remaining

ReadyTables(remaining, deps) ==
    {t \in remaining : \A dep \in deps[t] : dep \notin remaining}

\* lines 350-353: with no ready table, all remaining tables are taken
BatchNoGiveUp(ready, remaining) == ready

Batch(ready, remaining) == IF ready = {} THEN remaining ELSE ready

\* line 356: remaining_tables -= set(ready_tables)
RemoveNothing(remaining, batch) == remaining

RemovePlaced(remaining, batch) == remaining \ batch

(***************************************************************************)
(* DataMigrator: pages, chunks and migrate_table_data.                     *)
(* A row is named by its position in the table (1, 2, ...); a piece of     *)
(* output text is a record [kind, table, n, stmts], where stmts holds, for *)
(* insert text, the statements in order, each the list of its row tuples.  *)
(***************************************************************************)
Min(a, b) == IF a <= b THEN a ELSE b

Max(a, b) == IF a >= b THEN a ELSE b

CeilDiv(a, b) == (a + b - 1) \div b

Item(kind, table, n, stmts) == [kind |-> kind, table |-> table, n |-> n, stmts |-> stmts]

\* FirebirdClient.get_table_data_batch: SELECT FIRST limit SKIP offset
FetchPage(actual_rows, offset, limit) ==
    [i \in 1..Max(0, Min(limit, actual_rows - offset)) |-> offset + i]

\* generate_insert_statements line 164
ChunkSizeAtLeastOne(bs) == Max(1, Min(MaxChunk, bs \div ChunkDivisor))

ChunkSize(bs) == Min(MaxChunk, bs \div ChunkDivisor)

\* line 167: range(0, len(data_batch), chunk_size) raises ValueError for a zero step
InsertRaises(page, bs) == page # << >> /\ ChunkSize(bs) = 0

\* lines 149-189: the insert statements of one page, each with its row tuples
InsertStatements(page, bs) ==
    IF page = << >> THEN << >>
    ELSE LET c == ChunkSize(bs)
         IN  [k \in 1..CeilDiv(Len(page), c) |->
                 SubSeq(page, (k - 1) * c + 1, Min(k * c, Len(page)))]

\* validate_data_integrity: the rows of the page (by position in the page)
\* for which a warning is produced
PageWarnings(page, warn_rows) ==
    LET bad == {i \in 1..Len(page) : page[i] \in warn_rows}
        F[k \in 0..Len(page)] ==
            IF k = 0 THEN << >>
            ELSE IF k \in bad THEN Append(F[k - 1], k) ELSE F[k - 1]
    IN  F[Len(page)]

\* migrate_table_data lines 355-362: the comment lines for a page's warnings
WarningItems(table, batch_count, warnings) ==
    IF warnings = << >> THEN << >>
    ELSE <<Item("avisos", table, batch_count,
                <<SubSeq(warnings, 1, Min(MaxShownWarnings, Len(warnings)))>>)>>
         \o (IF Len(warnings) > MaxShownWarnings
             THEN <<Item("mais_avisos", table, Len(warnings) - MaxShownWarnings, << >>)>>
             ELSE << >>)

\* the state of a call of migrate_table_data before its first statement
MigrateBegin ==
    [pc |-> "start", offset |-> 0, calls |-> << >>, sql_output |-> << >>,
     processed_rows |-> 0, batch_count |-> 0, result |-> << >>]

\* lines 326-337: the empty-table return, or the opening lines
MigrateOpen(m, a) ==
    IF a.total_rows = 0
    THEN [m EXCEPT !.pc = "returned",
                   !.result = <<Item("vazia", a.table_name, 0, << >>)>>]
    ELSE [m EXCEPT !.pc = "loop",
                   !.sql_output =
                       <<Item("inicio", a.table_name, a.total_rows, << >>)>>
                       \o (IF a.use_transactions
                           THEN <<Item("BEGIN", a.table_name, 0, << >>)>> ELSE << >>)]

\* lines 345-379: one pass of the page loop
MigratePage(m, a) ==
    IF m.offset >= a.total_rows
    THEN [m EXCEPT !.pc = "finish"]
    ELSE LET calls == Append(m.calls, m.offset)
             batch == FetchPage(a.actual_rows, m.offset, a.batch_size)
             batch_count == m.batch_count + 1
             warnings == PageWarnings(batch, a.warn_rows)
         IN  IF a.fetch_fail_at = Len(calls)
             THEN [m EXCEPT !.pc = "raised", !.calls = calls]
             ELSE IF batch = << >>
             THEN [m EXCEPT !.pc = "finish", !.calls = calls]
             ELSE IF InsertRaises(batch, a.batch_size)
             THEN [m EXCEPT !.pc = "raised", !.calls = calls,
                            !.batch_count = batch_count,
                            !.processed_rows = m.processed_rows + Len(batch),
                            !.sql_output = m.sql_output
                                \o WarningItems(a.table_name, batch_count, warnings)]
             ELSE [m EXCEPT !.calls = calls,
                            !.offset = m.offset + a.batch_size,
                            !.batch_count = batch_count,
                            !.processed_rows = m.processed_rows + Len(batch),
                            !.sql_output = m.sql_output
                                \o WarningItems(a.table_name, batch_count, warnings)
                                \o <<Item("lote", a.table_name, batch_count, << >>),
                                     Item("insert", a.table_name, batch_count,
                                          InsertStatements(batch, a.batch_size))>>]

\* lines 385-391: the closing lines and the return
MigrateClose(m, a) ==
    LET out == m.sql_output
               \o (IF a.use_transactions
                   THEN <<Item("COMMIT", a.table_name, 0, << >>)>> ELSE << >>)
               \o <<Item("concluida", a.table_name, m.processed_rows, << >>)>>
    IN  [m EXCEPT !.pc = "returned", !.sql_output = out, !.result = out]

MigrateStep(m, a) ==
    CASE m.pc = "start" -> MigrateOpen(m, a)
      [] m.pc = "loop" -> MigratePage(m, a)
      [] m.pc = "finish" -> MigrateClose(m, a)
      [] OTHER -> m

\* the whole call: its final state, "returned" with the text or "raised"
RECURSIVE MigrateRun(_, _)
MigrateRun(m, a) ==
    IF m.pc \in {"returned", "raised"} THEN m ELSE MigrateRun(MigrateStep(m, a), a)

\* the row tuples of a text, in order
RECURSIVE Flatten(_)
Flatten(ss) == IF ss = << >> THEN << >> ELSE Head(ss) \o Flatten(Tail(ss))

RECURSIVE RenderedRows(_)
RenderedRows(text) ==
    IF text = << >> THEN << >>
    ELSE (IF Head(text).kind = "insert" THEN Flatten(Head(text).stmts) ELSE << >>)
         \o RenderedRows(Tail(text))

(***************************************************************************)
(* SQLGenerator: statistics, the stages and the combined text.             *)
(* start_time, end_time and duration (timestamps) are left out of stats.   *)
(***************************************************************************)
Note(kind, name) == [kind |-> kind, name |-> name]

Blank == Item("", 0, 0, << >>)

\* the elements of a set of numbers as an ascending list
RECURSIVE Ascending(_)
Ascending(S) ==
    IF S = {} THEN << >>
    ELSE LET x == CHOOSE y \in S : \A z \in S : y <= z
         IN  <<x>> \o Ascending(S \ {x})

\* __init__ lines 19-34
NewStats ==
    [total_tables |-> 0, processed_tables_schema |-> 0, processed_tables_data |-> 0,
     total_rows |-> 0, processed_rows |-> 0,
     total_sequences |-> 0, processed_sequences |-> 0,
     total_views |-> 0, processed_views |-> 0,
     errors |-> << >>, warnings |-> << >>]

UpdateStatsOverwrite(st, new) ==
    [k \in DOMAIN st |-> IF k \in DOMAIN new THEN new[k] ELSE st[k]]

\* _update_stats lines 360-367: only keys already in self.stats are merged
UpdateStats(st, new) ==
    [k \in DOMAIN st |->
        IF k \in DOMAIN new
        THEN (IF k \in {"errors", "warnings"} THEN st[k] \o new[k] ELSE st[k] + new[k])
        ELSE st[k]]

\* SchemaConverter.generate_sequences
GenerateSequences(gens) ==
    Flatten([i \in 1..Len(gens) |->
                <<Item("create_sequence", i, 0, << >>)>>
                \o (IF gens[i] > 0 THEN <<Item("setval", i, gens[i], << >>)>> ELSE << >>)])

\* _generate_sequences_sql lines 139-161
GenerateSequencesSql(gens) ==
    LET statements == GenerateSequences(gens)
    IN  [sql |-> <<Item("sequences_header", 0, 0, << >>)>>
                 \o (IF statements # << >> THEN statements \o <<Blank>> ELSE << >>),
         stats |-> [processed_sequences |-> IF statements # << >> THEN Len(gens) ELSE 0,
                    errors |-> << >>, warnings |-> << >>]]

\* _generate_schema_sql lines 163-193
GenerateSchemaSql(ts) ==
    LET F[k \in 0..Len(ts)] ==
            IF k = 0
            THEN [sql |-> <<Item("schema_header", 0, 0, << >>)>>,
                  stats |-> [processed_tables_schema |-> 0,
                             errors |-> << >>, warnings |-> << >>]]
            ELSE IF ts[k] \in schema_fails
            THEN [F[k - 1] EXCEPT !.stats.errors = Append(@, Note("erro_schema", ts[k]))]
            ELSE [F[k - 1] EXCEPT
                    !.sql = @ \o <<Item("table_comment", ts[k], row_count[ts[k]], << >>),
                                   Item("create_table", ts[k], 0, << >>), Blank>>,
                    !.stats.processed_tables_schema = @ + 1]
    IN  F[Len(ts)]

\* _generate_views_sql lines 195-235
GenerateViewsSql(vs) ==
    LET F[k \in 0..Len(vs)] ==
            IF k = 0
            THEN [sql |-> <<Item("views_header", 0, 0, << >>)>>,
                  stats |-> [processed_views |-> 0, errors |-> << >>, warnings |-> << >>]]
            ELSE IF vs[k] = "raises"
            THEN [F[k - 1] EXCEPT !.stats.errors = Append(@, Note("erro_view", k))]
            ELSE IF vs[k] = "def"
            THEN [F[k - 1] EXCEPT
                    !.sql = @ \o <<Item("view_comment", k, 0, << >>),
                                   Item("create_view", k, 0, << >>), Blank>>,
                    !.stats.processed_views = @ + 1,
                    !.stats.warnings = Append(@, Note("view_convertida", k))]
            ELSE [F[k - 1] EXCEPT
                    !.stats.warnings = Append(@, Note("view_sem_definicao", k))]
    IN  F[Len(vs)]

\* FirebirdClient._get_indexes: in the modelled catalogue the odd-numbered
\* tables carry one index
ProviderIndexes(t) == t % 2

\* SchemaConverter.generate_constraints: index statements, then foreign keys
GenerateConstraints(t) ==
    [k \in 1..ProviderIndexes(t) |-> Item("create_index", t, k, << >>)]
    \o [k \in 1..Cardinality(foreign_keys[t]) |->
           Item("foreign_key", t, Ascending(foreign_keys[t])[k], << >>)]

\* _generate_constraints_sql lines 237-263
GenerateConstraintsSql(ts) ==
    LET F[k \in 0..Len(ts)] ==
            IF k = 0
            THEN [sql |-> <<Item("constraints_header", 0, 0, << >>)>>,
                  stats |-> [processed_constraints |-> 0,
                             errors |-> << >>, warnings |-> << >>]]
            ELSE IF ts[k] \in schema_fails
            THEN [F[k - 1] EXCEPT !.stats.errors = Append(@, Note("erro_constraints", ts[k]))]
            ELSE LET constraints == GenerateConstraints(ts[k])
                 IN  IF constraints = << >> THEN F[k - 1]
                     ELSE [F[k - 1] EXCEPT
                             !.sql = @ \o <<Item("constraints_comment", ts[k], 0, << >>)>>
                                       \o constraints \o <<Blank>>,
                             !.stats.processed_constraints = @ + Len(constraints)]
    IN  F[Len(ts)]

\* _sort_tables_by_dependencies as one call: every list it can return, with
\* whether the circular-dependency warning was logged
RECURSIVE SortLoop(_, _, _, _, _, _)
SortLoop(sorted, remaining, iter, maxit, deps, logged) ==
    IF ~(remaining # {} /\ iter < maxit)
    THEN {[order |-> sorted, cycle_logged |-> logged]}
    ELSE LET ready == ReadyTables(remaining, deps)
             batch == Batch(ready, remaining)
         IN  UNION {SortLoop(sorted \o o, RemovePlaced(remaining, batch), iter + 1,
                             maxit, deps, logged \/ ready = {}) : o \in Orders(batch)}

SortOutcomes(ts) ==
    SortLoop(<< >>, Range(ts), 0, Len(ts) * 2,
             [t \in Range(ts) |-> Dependencies(t, ts, foreign_keys, schema_fails)], FALSE)

\* the arguments of the migrate_table_data call of _generate_data_sql, and
\* the rows and the fault of the table in the provider
MigrateArgs(t) ==
    [table_name |-> t, total_rows |-> row_count[t], batch_size |-> batch_size,
     actual_rows |-> row_count[t], fetch_fail_at |-> fetch_fail_at[t], warn_rows |-> {},
     use_copy |-> FALSE, use_transactions |-> FALSE]

\* _generate_data_sql lines 278-308: one pass of the loop over sorted_tables,
\* a the arguments of its migrate_table_data call and what the provider
\* does during it
DataTableWith(d, t, a) ==
    IF t \in schema_fails
    THEN [d EXCEPT !.stats.errors = Append(@, Note("erro_dados", t))]
    ELSE IF row_count[t] > 0
    THEN LET m == MigrateRun(MigrateBegin, a)
         IN  IF m.pc = "raised"
             THEN [d EXCEPT !.stats.errors = Append(@, Note("erro_dados", t))]
             ELSE IF m.result # << >>
             THEN [d EXCEPT !.sql = @ \o m.result,
                            !.stats.processed_rows = @ + row_count[t],
                            !.stats.processed_tables_data = @ + 1]
             ELSE d
    ELSE [d EXCEPT !.sql = @ \o <<Item("vazia", t, 0, << >>), Blank>>]

\* the pass with the text of a failed table kept
DataTableKeepsPartialText(d, t) ==
    IF t \in schema_fails
    THEN [d EXCEPT !.stats.errors = Append(@, Note("erro_dados", t))]
    ELSE IF row_count[t] > 0
    THEN LET m == MigrateRun(MigrateBegin, MigrateArgs(t))
         IN  IF m.pc = "raised"
             THEN [d EXCEPT !.sql = @ \o m.sql_output,
                            !.stats.errors = Append(@, Note("erro_dados", t))]
             ELSE IF m.result # << >>
             THEN [d EXCEPT !.sql = @ \o m.result,
                            !.stats.processed_rows = @ + row_count[t],
                            !.stats.processed_tables_data = @ + 1]
             ELSE d
    ELSE [d EXCEPT !.sql = @ \o <<Item("vazia", t, 0, << >>), Blank>>]

\* the pass for a table that holds, when its pages are fetched, the rows that
\* were counted
DataTable(d, t) == DataTableWith(d, t, MigrateArgs(t))

\* lines 267-273
DataBegin ==
    [sql |-> <<Item("data_header", 0, 0, << >>)>>,
     stats |-> [processed_tables_data |-> 0, processed_rows |-> 0,
                errors |-> << >>, warnings |-> << >>]]

\* _generate_data_sql lines 265-310 for a given result of the sort
GenerateDataSql(order) ==
    LET F[k \in 0..Len(order)] ==
            IF k = 0 THEN DataBegin ELSE DataTable(F[k - 1], order[k])
    IN  F[Len(order)]

\* _combine_sql_components lines 369-420
CombineSqlComponents(comps, st) ==
    <<Item("header", 0, 0, << >>)>> \o comps
    \o <<Item("footer", st.processed_tables_schema, st.processed_rows, << >>)>>

(***************************************************************************)
(* Values of the variables a specification does not use.                   *)
(***************************************************************************)
ProviderOff ==
    /\ tables = << >> /\ foreign_keys = << >> /\ schema_fails = {}
    /\ row_count = << >> /\ fetch_fail_at = << >>
    /\ generators = << >> /\ views = << >>

RunOff ==
    /\ batch_size = 0 /\ include_data = FALSE
    /\ stats = << >> /\ components = << >> /\ result = << >>
    /\ connection = "none" /\ handle = "none" /\ requests = {} /\ pc = "off"

SortOff ==
    /\ table_dependencies = << >>
    /\ sorted_tables = << >>
    /\ remaining_tables = {}
    /\ iteration = 0
    /\ max_iterations = 0
    /\ cycle_logged = FALSE
    /\ sort_pc = "off"

MigOff == mig_args = << >> /\ mig = << >>

DataOff == data = << >> /\ data_idx = 0 /\ data_pc = "off"

ProcessOff == runs = 0 /\ object_calls = 0 /\ previous = << >> /\ set_order = << >>

CallOff == call = << >> /\ ret = << >>

SortInit ==
    /\ \E n \in 0..SortMaxTables :
         /\ tables = [i \in 1..n |-> i]
         /\ \E fails \in SUBSET (1..n) :
              /\ schema_fails = fails
              /\ foreign_keys \in
                   {g \in ProviderGraphs(n, SortMaxFks) : \A t \in fails : g[t] = {}}
    /\ table_dependencies = << >>
    /\ sorted_tables = << >>
    /\ remaining_tables = {}
    /\ iteration = 0
    /\ max_iterations = 0
    /\ cycle_logged = FALSE
    /\ sort_pc = "build"
    /\ row_count = << >> /\ fetch_fail_at = << >>
    /\ generators = << >> /\ views = << >>
    /\ RunOff
    /\ MigOff
    /\ DataOff
    /\ ProcessOff
    /\ CallOff

\* lines 314-338: the dependency graph and the loop's initial state
BuildDependencies ==
    /\ sort_pc = "build"
    /\ sorted_tables' = << >>
    /\ remaining_tables' = Range(tables)
    /\ max_iterations' = Len(tables) * 2
    /\ iteration' = 0
    /\ sort_pc' = "loop"
    /\ table_dependencies' =
         [t \in Range(tables) |-> Dependencies(t, tables, foreign_keys, schema_fails)]
    /\ UNCHANGED <<cycle_logged, providerVars, configVars, runVars, migVars,
                   dataVars, processVars, callVars>>

\* lines 340-356: one pass of the while loop
SortIteration ==
    /\ sort_pc = "loop"
    /\ remaining_tables # {} /\ iteration < max_iterations
    /\ LET ready == ReadyTables(remaining_tables, table_dependencies)
           batch == Batch(ready, remaining_tables)
       IN  /\ \E order \in Orders(batch) : sorted_tables' = sorted_tables \o order
           /\ remaining_tables' = RemovePlaced(remaining_tables, batch)
           /\ cycle_logged' = (cycle_logged \/ ready = {})
    /\ iteration' = iteration + 1
    /\ UNCHANGED <<table_dependencies, max_iterations, sort_pc, providerVars,
                   configVars, runVars, migVars, dataVars, processVars,
                   callVars>>

\* line 358: the loop condition is false, the list is returned
SortReturn ==
    /\ sort_pc = "loop"
    /\ ~(remaining_tables # {} /\ iteration < max_iterations)
    /\ sort_pc' = "returned"
    /\ UNCHANGED <<table_dependencies, sorted_tables, remaining_tables,
                   iteration, max_iterations, cycle_logged, providerVars,
                   configVars, runVars, migVars, dataVars, processVars,
                   callVars>>

SortNext == BuildDependencies \/ SortIteration \/ SortReturn

SpecSort == SortInit /\ [][SortNext]_vars

(***************************************************************************)
(* SpecMigrate: one call of DataMigrator.migrate_table_data.               *)
(* The table holds actual_rows rows when its pages are fetched; total_rows *)
(* is the count the caller passes.  The provider call number fetch_fail_at *)
(* raises (0: none).  warn_rows are the rows validation warns about.       *)
(***************************************************************************)
MigrateInit ==
    /\ ProviderOff
    /\ RunOff
    /\ SortOff
    /\ \E P \in 1..MigMaxBatch, N \in 0..MigMaxRows, A \in 0..MigMaxRows,
          f \in 0..MigMaxFailCall, w \in {0, 1, MigMaxRows}, tx \in BOOLEAN,
          copy \in BOOLEAN :
         mig_args = [table_name |-> 1, total_rows |-> N, batch_size |-> P,
                     actual_rows |-> A, fetch_fail_at |-> f, warn_rows |-> 1..w,
                     use_copy |-> copy, use_transactions |-> tx]
    /\ mig = MigrateBegin
    /\ DataOff
    /\ ProcessOff
    /\ CallOff

MigrateStart ==
    /\ mig # << >> /\ mig.pc = "start"
    /\ mig' = MigrateOpen(mig, mig_args)
    /\ UNCHANGED <<mig_args, providerVars, configVars, runVars, sortVars,
                   dataVars, processVars, callVars>>

MigrateLoop ==
    /\ mig # << >> /\ mig.pc = "loop"
    /\ mig' = MigratePage(mig, mig_args)
    /\ UNCHANGED <<mig_args, providerVars, configVars, runVars, sortVars,
                   dataVars, processVars, callVars>>

MigrateFinish ==
    /\ mig # << >> /\ mig.pc = "finish"
    /\ mig' = MigrateClose(mig, mig_args)
    /\ UNCHANGED <<mig_args, providerVars, configVars, runVars, sortVars,
                   dataVars, processVars, callVars>>

MigrateNext == MigrateStart \/ MigrateLoop \/ MigrateFinish

SpecMigrate == MigrateInit /\ [][MigrateNext]_vars

(***************************************************************************)
(* Spec: one call of generate_complete_sql on a new SQLGenerator, a step   *)
(* per stage.  The database: up to RunMaxTables tables with foreign keys   *)
(* among them, at most one faulty table (its schema lookup raises, or its  *)
(* first page fetch raises), at most one generator and one view.           *)
(***************************************************************************)
RunGraphs(n) ==
    { [t \in 1..n |-> {e[2] : e \in {d \in E : d[1] = t}}] :
        E \in SubsetsUpTo({e \in (1..n) \X (1..n) : e[1] # e[2]}, RunMaxFks) }

RunInit ==
    /\ \E n \in 0..RunMaxTables :
         /\ tables = [i \in 1..n |-> i]
         /\ row_count \in [1..n -> {0, RunMaxRows}]
         /\ \E ft \in 0..n, kind \in {"schema", "fetch"} :
              /\ ft = 0 => kind = "schema"
              /\ schema_fails = (IF kind = "schema" THEN {ft} \ {0} ELSE {})
              /\ fetch_fail_at = [t \in 1..n |-> IF kind = "fetch" /\ t = ft THEN 1 ELSE 0]
              /\ foreign_keys \in
                   {g \in RunGraphs(n) : kind = "schema" /\ ft # 0 => g[ft] = {}}
    /\ generators \in {<< >>, <<1>>}
    /\ views \in {<< >>, <<"def">>, <<"nodef">>, <<"raises">>}
    /\ batch_size = RunBatch
    /\ include_data \in BOOLEAN
    /\ stats = NewStats
    /\ components = << >>
    /\ result = << >>
    /\ connection = "none" /\ handle = "none"
    /\ requests = {}
    /\ pc = "ready"
    /\ SortOff
    /\ MigOff
    /\ DataOff
    /\ runs = 1 /\ object_calls = 1 /\ previous = << >> /\ set_order = << >>
    /\ CallOff

Returned == pc \in {"ret_connect", "ret_test", "ret_ok", "ret_exception"}

\* lines 83-120: the order of the stages
StageAfterConstraintsFirst(stage) ==
    CASE stage = "list" -> "sequences"
      [] stage = "sequences" -> "schema"
      [] stage = "schema" -> "views"
      [] stage = "views" -> "constraints"
      [] stage = "constraints" -> "data"
      [] stage = "data" -> "combine"

StageAfter(stage) ==
    CASE stage = "list" -> "sequences"
      [] stage = "sequences" -> "schema"
      [] stage = "schema" -> "views"
      [] stage = "views" -> "data"
      [] stage = "data" -> "constraints"
      [] stage = "constraints" -> "combine"

\* close() without its finally clause
CloseKeepsOnFailure(conn, hnd, raises) ==
    IF conn = "none" THEN [connection |-> conn, handle |-> hnd]
    ELSE IF raises THEN [connection |-> conn, handle |-> hnd]
    ELSE [connection |-> "none", handle |-> "closed"]

\* FirebirdClient.close lines 498-507: the attribute and the fdb connection
\* after it, raises telling whether connection.close() raises
Close(conn, hnd, raises) ==
    IF conn = "none" THEN [connection |-> conn, handle |-> hnd]
    ELSE [connection |-> "none", handle |-> IF raises THEN hnd ELSE "closed"]

\* lines 43, 57: connect() succeeds
ConnectOk ==
    /\ pc = "ready"
    /\ connection' = "open" /\ handle' = "open"
    /\ pc' = "test"
    /\ UNCHANGED <<stats, components, result, requests, providerVars,
                   configVars, sortVars, migVars, dataVars, processVars,
                   callVars>>

ConnectFailsButRunGoesOn ==
    /\ pc = "ready"
    /\ stats' = [stats EXCEPT !.errors = Append(@, Note("falha_conectar", 0))]
    /\ pc' = "list"
    /\ UNCHANGED <<components, result, connection, handle, requests, providerVars,
                   configVars, sortVars, migVars, dataVars, processVars,
                   callVars>>

\* lines 43-47 and 136-137: connect() returns False
ConnectFails ==
    /\ pc = "ready"
    /\ stats' = [stats EXCEPT !.errors = Append(@, Note("falha_conectar", 0))]
    /\ result' = << >>
    /\ \E close_raises \in BOOLEAN :
         LET closed == Close(connection, handle, close_raises)
         IN  connection' = closed.connection /\ handle' = closed.handle
    /\ pc' = "ret_connect"
    /\ UNCHANGED <<components, requests, providerVars, configVars, sortVars,
                   migVars, dataVars, processVars, callVars>>

\* lines 50-58: test_connection() reports success
TestConnectionOk ==
    /\ pc = "test"
    /\ requests' = requests \cup {"test_connection"}
    /\ pc' = "list"
    /\ UNCHANGED <<stats, components, result, connection, handle, providerVars,
                   configVars, sortVars, migVars, dataVars, processVars,
                   callVars>>

\* lines 50-55 and 136-137: test_connection() reports an error
TestConnectionError ==
    /\ pc = "test"
    /\ requests' = requests \cup {"test_connection"}
    /\ stats' = [stats EXCEPT !.errors = Append(@, Note("erro_conexao", 0))]
    /\ result' = << >>
    /\ \E close_raises \in BOOLEAN :
         LET closed == Close(connection, handle, close_raises)
         IN  connection' = closed.connection /\ handle' = closed.handle
    /\ pc' = "ret_test"
    /\ UNCHANGED <<components, providerVars, configVars, sortVars, migVars,
                   dataVars, processVars, callVars>>

\* lines 60-84: the object lists, the totals, the empty component list
ListObjects ==
    /\ pc = "list"
    /\ requests' = requests \cup {"get_tables", "get_views", "get_generators"}
                   \cup (IF tables # << >> THEN {"get_table_count"} ELSE {})
    /\ stats' = [stats EXCEPT
                   !.total_tables = Len(tables),
                   !.total_views = Len(views),
                   !.total_sequences = Len(generators),
                   !.total_rows = LET F[k \in 0..Len(tables)] ==
                                          IF k = 0 THEN 0 ELSE F[k - 1] + row_count[tables[k]]
                                  IN  F[Len(tables)]]
    /\ components' = << >>
    /\ pc' = StageAfter("list")
    /\ UNCHANGED <<result, connection, handle, providerVars, configVars, sortVars,
                   migVars, dataVars, processVars, callVars>>

\* lines 86-91
StageSequences ==
    /\ pc = "sequences"
    /\ IF generators # << >>
       THEN LET g == GenerateSequencesSql(generators)
            IN  /\ components' = components \o g.sql
                /\ stats' = UpdateStats(stats, g.stats)
       ELSE UNCHANGED <<components, stats>>
    /\ pc' = StageAfter("sequences")
    /\ UNCHANGED <<result, connection, handle, requests, providerVars, configVars,
                   sortVars, migVars, dataVars, processVars, callVars>>

\* lines 93-97
StageSchema ==
    /\ pc = "schema"
    /\ LET g == GenerateSchemaSql(tables)
       IN  /\ components' = components \o g.sql
           /\ stats' = UpdateStats(stats, g.stats)
    /\ requests' = requests \cup (IF tables # << >> THEN {"get_table_schema"} ELSE {})
    /\ pc' = StageAfter("schema")
    /\ UNCHANGED <<result, connection, handle, providerVars, configVars, sortVars,
                   migVars, dataVars, processVars, callVars>>

\* lines 99-104
StageViews ==
    /\ pc = "views"
    /\ IF views # << >>
       THEN LET g == GenerateViewsSql(views)
            IN  /\ components' = components \o g.sql
                /\ stats' = UpdateStats(stats, g.stats)
                /\ requests' = requests \cup {"view_source"}
       ELSE UNCHANGED <<components, stats, requests>>
    /\ pc' = StageAfter("views")
    /\ UNCHANGED <<result, connection, handle, providerVars, configVars, sortVars,
                   migVars, dataVars, processVars, callVars>>

\* lines 106-111: the data stage, with the sort it starts with
StageData ==
    /\ pc = "data"
    /\ include_data /\ stats.errors = << >>
    /\ \E o \in SortOutcomes(tables) :
         /\ set_order \in {<< >>, o.order}
         /\ set_order' = o.order
         /\ sorted_tables' = o.order
         /\ cycle_logged' = o.cycle_logged
         /\ LET g == GenerateDataSql(o.order)
            IN  /\ components' = components \o g.sql
                /\ stats' = UpdateStats(stats, g.stats)
    /\ requests' = requests
                   \cup (IF tables # << >> THEN {"get_table_schema"} ELSE {})
                   \cup (IF \E t \in Range(tables) \ schema_fails : row_count[t] > 0
                         THEN {"get_table_data_batch"} ELSE {})
    /\ pc' = StageAfter("data")
    /\ UNCHANGED <<result, connection, handle, providerVars, configVars, migVars,
                   dataVars, runs, object_calls, previous, table_dependencies,
                   remaining_tables, iteration, max_iterations, sort_pc,
                   callVars>>

\* line 107: data not requested, or an error was recorded before
StageDataSkipped ==
    /\ pc = "data"
    /\ ~(include_data /\ stats.errors = << >>)
    /\ pc' = StageAfter("data")
    /\ UNCHANGED <<stats, components, result, connection, handle, requests,
                   providerVars, configVars, sortVars, migVars, dataVars,
                   processVars, callVars>>

\* lines 113-117
StageConstraints ==
    /\ pc = "constraints"
    /\ LET g == GenerateConstraintsSql(tables)
       IN  /\ components' = components \o g.sql
           /\ stats' = UpdateStats(stats, g.stats)
    /\ requests' = requests \cup (IF tables # << >> THEN {"get_table_schema"} ELSE {})
    /\ pc' = StageAfter("constraints")
    /\ UNCHANGED <<result, connection, handle, providerVars, configVars, sortVars,
                   migVars, dataVars, processVars, callVars>>

\* lines 119-129 and 136-137: the combined text is returned
CombineAndReturn ==
    /\ pc = "combine"
    /\ result' = CombineSqlComponents(components, stats)
    /\ \E close_raises \in BOOLEAN :
         LET closed == Close(connection, handle, close_raises)
         IN  connection' = closed.connection /\ handle' = closed.handle
    /\ pc' = "ret_ok"
    /\ UNCHANGED <<stats, components, requests, providerVars, configVars,
                   sortVars, migVars, dataVars, processVars, callVars>>

\* the text returned by the handler of an unexpected exception, line 135
ExceptionTextKeepsComponents(comps) == comps

ExceptionText(comps) == << >>

\* lines 131-137: a statement of the try block outside the stages' own
\* handlers raises: get_tables at line 61 (firebird_client.py lines 118-120),
\* or joining the components at line 120 (a MemoryError at line 402)
UnexpectedException ==
    /\ pc \in {"list", "combine"}
    /\ stats' = [stats EXCEPT !.errors = Append(@, Note("erro_inesperado", 0))]
    /\ result' = ExceptionText(components)
    /\ \E close_raises \in BOOLEAN :
         LET closed == Close(connection, handle, close_raises)
         IN  connection' = closed.connection /\ handle' = closed.handle
    /\ pc' = "ret_exception"
    /\ UNCHANGED <<components, requests, providerVars, configVars, sortVars,
                   migVars, dataVars, processVars, callVars>>

Next ==
    \/ ConnectOk \/ ConnectFails \/ TestConnectionOk \/ TestConnectionError
    \/ ListObjects \/ StageSequences \/ StageSchema \/ StageViews
    \/ StageData \/ StageDataSkipped \/ StageConstraints
    \/ CombineAndReturn \/ UnexpectedException

Spec == RunInit /\ [][Next]_vars

(***************************************************************************)
(* SpecData: one call of _generate_data_sql, a step per table of the       *)
(* sorted list.  A table is empty, holds one row, or holds one row more    *)
(* than a page; its schema lookup may raise, or one of its page fetches.   *)
(* With a page size below ChunkDivisor rendering a page raises.            *)
(***************************************************************************)
DataInit ==
    /\ \E n \in 0..RunMaxTables :
         /\ tables = [i \in 1..n |-> i]
         /\ batch_size \in {RunBatch - 1, RunBatch}
         /\ row_count \in [1..n -> {0, 1, batch_size + 1}]
         /\ schema_fails \in SUBSET (1..n)
         /\ fetch_fail_at \in [1..n -> 0..MigMaxFailCall]
         /\ \A t \in 1..n :
              /\ t \in schema_fails => row_count[t] = 0
              /\ fetch_fail_at[t] <= CeilDiv(row_count[t], batch_size)
         /\ foreign_keys \in {g \in RunGraphs(n) : \A t \in schema_fails : g[t] = {}}
    /\ generators = << >> /\ views = << >>
    /\ include_data = TRUE
    /\ stats = << >> /\ components = << >> /\ result = << >>
    /\ connection = "open" /\ handle = "open" /\ requests = {} /\ pc = "off"
    /\ SortOff
    /\ MigOff
    /\ data = << >> /\ data_idx = 0 /\ data_pc = "sort"
    /\ ProcessOff
    /\ CallOff

\* lines 267-276
DataSort ==
    /\ data_pc = "sort"
    /\ \E o \in SortOutcomes(tables) :
         /\ sorted_tables' = o.order
         /\ cycle_logged' = o.cycle_logged
    /\ data' = DataBegin
    /\ data_idx' = 0
    /\ data_pc' = "loop"
    /\ UNCHANGED <<table_dependencies, remaining_tables, iteration,
                   max_iterations, sort_pc, providerVars, configVars, runVars,
                   migVars, processVars, callVars>>

\* lines 278-308: the loop body for the next table
DataLoop ==
    /\ data_pc = "loop"
    /\ data_idx < Len(sorted_tables)
    /\ data' = DataTable(data, sorted_tables[data_idx + 1])
    /\ data_idx' = data_idx + 1
    /\ UNCHANGED <<data_pc, providerVars, configVars, runVars, sortVars,
                   migVars, processVars, callVars>>

\* line 310
DataReturn ==
    /\ data_pc = "loop"
    /\ data_idx = Len(sorted_tables)
    /\ data_pc' = "returned"
    /\ UNCHANGED <<data, data_idx, providerVars, configVars, runVars, sortVars,
                   migVars, processVars, callVars>>

DataNext == DataSort \/ DataLoop \/ DataReturn

SpecData == DataInit /\ [][DataNext]_vars

(***************************************************************************)
(* SpecRuns: up to MaxRuns calls of generate_complete_sql over the same    *)
(* provider contents.  A further call is made in a new interpreter process *)
(* on a new SQLGenerator, or in the same process on the same SQLGenerator. *)
(* The tables are healthy and hold RunMaxRows rows each.                   *)
(***************************************************************************)
RunsInit ==
    /\ RunInit
    /\ schema_fails = {}
    /\ \A t \in Range(tables) : fetch_fail_at[t] = 0 /\ row_count[t] = RunMaxRows
    /\ generators = << >> /\ views = << >>

Outcome == [pc |-> pc, result |-> result, stats |-> stats]

\* sql_generator.py lines 13-34 in a new process: str hashes are drawn anew,
\* so set(tables) has a new iteration order
RunInNewProcess ==
    /\ Returned /\ runs < MaxRuns
    /\ previous' = Outcome
    /\ runs' = runs + 1
    /\ object_calls' = 1
    /\ set_order' = << >>
    /\ stats' = NewStats
    /\ components' = << >> /\ result' = << >>
    /\ requests' = {}
    /\ sorted_tables' = << >> /\ cycle_logged' = FALSE
    /\ pc' = "ready"
    /\ UNCHANGED <<connection, handle, table_dependencies, remaining_tables, iteration,
                   max_iterations, sort_pc, providerVars, configVars, migVars,
                   dataVars, callVars>>

\* lines 36-38: generate_complete_sql is called again on the same object;
\* only stats['start_time'] is assigned
CallAgain ==
    /\ Returned /\ runs < MaxRuns
    /\ previous' = Outcome
    /\ runs' = runs + 1
    /\ object_calls' = object_calls + 1
    /\ components' = << >> /\ result' = << >>
    /\ requests' = {}
    /\ sorted_tables' = << >> /\ cycle_logged' = FALSE
    /\ pc' = "ready"
    /\ UNCHANGED <<stats, set_order, connection, handle, table_dependencies,
                   remaining_tables, iteration, max_iterations, sort_pc,
                   providerVars, configVars, migVars, dataVars, callVars>>

NextRuns == Next \/ RunInNewProcess \/ CallAgain

SpecRuns == RunsInit /\ [][NextRuns]_vars

(***************************************************************************)
(* DataMigrator: serialization of one value.  A text is a sequence of      *)
(* characters; a value is a record of its Python type and its content.     *)
(***************************************************************************)
SQ == "'"
DQ == "\""
BS == "\\"
NL == "\n"
CR == "\r"
TAB == "\t"
Nul == "\\0"

\* characters with ord(c) < 32
ControlChars == {NL, CR, TAB, Nul}

StartsWith(s, pat) == Len(pat) <= Len(s) /\ SubSeq(s, 1, Len(pat)) = pat

\* str.replace(pat, rep), pat not empty
RECURSIVE Replace(_, _, _)
Replace(s, pat, rep) ==
    IF s = << >> THEN << >>
    ELSE IF StartsWith(s, pat)
    THEN rep \o Replace(SubSeq(s, Len(pat) + 1, Len(s)), pat, rep)
    ELSE <<Head(s)>> \o Replace(Tail(s), pat, rep)

\* pat in s
Contains(s, pat) ==
    \E i \in 1..(Len(s) - Len(pat) + 1) : SubSeq(s, i, i + Len(pat) - 1) = pat

\* str.strip(c)
RECURSIVE Strip(_, _)
Strip(s, c) ==
    IF s = << >> THEN << >>
    ELSE IF Head(s) = c THEN Strip(Tail(s), c)
    ELSE IF s[Len(s)] = c THEN Strip(SubSeq(s, 1, Len(s) - 1), c)
    ELSE s

Val(t, s, n, b) == [t |-> t, s |-> s, n |-> n, b |-> b]
None == Val("none", << >>, 0, FALSE)
StrVal(s) == Val("str", s, 0, FALSE)
IntVal(n) == Val("int", << >>, n, FALSE)
BoolVal(b) == Val("bool", << >>, 0, b)

Returns(text) == [done |-> TRUE, raised |-> FALSE, text |-> text]
Raises == [done |-> TRUE, raised |-> TRUE, text |-> << >>]
Pending == [done |-> FALSE, raised |-> FALSE, text |-> << >>]

\* str(value) of an int and of a bool
RECURSIVE Digits(_)
Digits(n) ==
    IF n < 10 THEN <<<<"0", "1", "2", "3", "4", "5", "6", "7", "8", "9">>[n + 1]>>
    ELSE Digits(n \div 10) \o Digits(n % 10)

StrOfInt(n) == IF n < 0 THEN <<"-">> \o Digits(0 - n) ELSE Digits(n)

StrOfBool(b) == IF b THEN <<"T", "r", "u", "e">> ELSE <<"F", "a", "l", "s", "e">>

\* the replacements with the line endings handled before the backslashes
EscapeTextNewlineFirst(value) ==
    LET e1 == Replace(value, <<NL>>, <<BS, "n">>)
        e2 == Replace(e1, <<BS>>, <<BS, BS>>)
        e3 == Replace(e2, <<SQ>>, <<SQ, SQ>>)
    IN  e3

\* format_value_for_postgres lines 57-63: the replacements, in their order
EscapeText(value) ==
    LET e1 == Replace(value, <<BS>>, <<BS, BS>>)
        e2 == Replace(e1, <<SQ>>, <<SQ, SQ>>)
        e3 == Replace(e2, <<Nul>>, << >>)
        e4 == Replace(e3, <<CR, NL>>, <<BS, "n">>)
        e5 == Replace(e4, <<CR>>, <<BS, "n">>)
        e6 == Replace(e5, <<NL>>, <<BS, "n">>)
        e7 == Replace(e6, <<TAB>>, <<BS, "t">>)
    IN  e7

\* format_value_for_postgres lines 51-68: a str value
TextLiteral(value) ==
    IF value = << >> THEN <<SQ, SQ>>
    ELSE LET escaped == EscapeText(value)
         IN  IF \/ Contains(escaped, <<BS, "n">>)
                \/ Contains(escaped, <<BS, "t">>)
                \/ Contains(escaped, <<BS, BS>>)
                \/ \E i \in 1..Len(escaped) : escaped[i] \in ControlChars
             THEN <<"E", SQ>> \o escaped \o <<SQ>>
             ELSE <<SQ>> \o escaped \o <<SQ>>

\* format_value_for_postgres lines 44-142, for None, str, int and bool values;
\* isinstance(value, (int, float)) holds of a bool, and Decimal('True') raises
FormatValueForPostgres(value, column_type) ==
    IF value.t = "none" THEN Returns(<<"N", "U", "L", "L">>)
    ELSE IF value.t = "str" THEN Returns(TextLiteral(value.s))
    ELSE IF value.t \in {"int", "bool"}
    THEN IF column_type = NumericType
         THEN (IF value.t = "bool" THEN Raises ELSE Returns(StrOfInt(value.n)))
         ELSE Returns(IF value.t = "bool" THEN StrOfBool(value.b) ELSE StrOfInt(value.n))
    ELSE IF value.t = "bool"
    THEN Returns(IF value.b THEN <<"T", "R", "U", "E">> ELSE <<"F", "A", "L", "S", "E">>)
    ELSE Returns(<<"N", "U", "L", "L">>)

\* generate_copy_statements lines 227-250: one field of a CSV line
CopyField(value, column_type) ==
    IF value.t = "none" THEN Returns(<<BS, "N">>)
    ELSE IF value.t = "str"
    THEN IF value.s = << >> THEN Returns(<<DQ, DQ>>)
         ELSE LET e1 == Replace(value.s, <<DQ>>, <<DQ, DQ>>)
                  e2 == Replace(e1, <<NL>>, <<BS, "n">>)
                  e3 == Replace(e2, <<CR>>, <<BS, "r">>)
              IN  Returns(<<DQ>> \o e3 \o <<DQ>>)
    ELSE IF value.t = "bool" THEN Returns(IF value.b THEN <<"t">> ELSE <<"f">>)
    ELSE LET formatted == FormatValueForPostgres(value, column_type)
         IN  IF formatted.raised THEN Raises
             ELSE IF formatted.text = <<"N", "U", "L", "L">> THEN Returns(<<BS, "N">>)
             ELSE Returns(Strip(formatted.text, SQ))

RowGetEmptyText(row) == IF row.has_key THEN row.value ELSE StrVal(<< >>)

\* row.get(col), lines 176 and 224: None for a key the row lacks
RowGet(row) == IF row.has_key THEN row.value ELSE None

(***************************************************************************)
(* SpecSerialize: one value of one row rendered in both modes, by          *)
(* generate_insert_statements and by generate_copy_statements.             *)
(* column_type 0 stands for a column without type hint.                    *)
(***************************************************************************)
Alphabet == {SQ, BS, NL, "a", "n"}

RECURSIVE Texts(_)
Texts(k) ==
    IF k = 0 THEN {<< >>}
    ELSE Texts(k - 1) \cup {Append(t, c) : t \in {u \in Texts(k - 1) : Len(u) = k - 1},
                                           c \in Alphabet}

Values ==
    {None} \cup {StrVal(t) : t \in Texts(MaxTextLen)} \cup {IntVal(n) : n \in -1..MaxInt}
    \cup {BoolVal(b) : b \in BOOLEAN}

TypeHints == {0, 8, 37, NumericType}

SerializeInit ==
    /\ ProviderOff /\ RunOff /\ SortOff /\ MigOff /\ DataOff /\ ProcessOff
    /\ \E v \in Values, h \in BOOLEAN, ct \in TypeHints :
         /\ ~h => v = None
         /\ call = [row |-> [has_key |-> h, value |-> v], column_type |-> ct]
    /\ ret = [insert |-> Pending, copy |-> Pending]

\* generate_insert_statements lines 174-179
InsertValue ==
    /\ ret # << >> /\ ~ret.insert.done
    /\ ret' = [ret EXCEPT !.insert = FormatValueForPostgres(RowGet(call.row),
                                                            call.column_type)]
    /\ UNCHANGED <<call, providerVars, configVars, runVars, sortVars, migVars,
                   dataVars, processVars>>

\* generate_copy_statements lines 222-250
CopyValue ==
    /\ ret # << >> /\ ~ret.copy.done
    /\ ret' = [ret EXCEPT !.copy = CopyField(RowGet(call.row), call.column_type)]
    /\ UNCHANGED <<call, providerVars, configVars, runVars, sortVars, migVars,
                   dataVars, processVars>>

SerializeNext == InsertValue \/ CopyValue

SpecSerialize == SerializeInit /\ [][SerializeNext]_vars

(***************************************************************************)
(* SchemaConverter.map_data_type.  An optional integer argument is a       *)
(* record: none for Python's None, else its number.  A type string is its  *)
(* base name and the arguments formatted into it.                          *)
(***************************************************************************)
Some(n) == [none |-> FALSE, n |-> n]
NoArg == [none |-> TRUE, n |-> 0]

TypeString(base, args) == [base |-> base, args |-> args]

Evaluated(type) == [raised |-> FALSE, type |-> type]
RuleRaises == [raised |-> TRUE, type |-> TypeString("", << >>)]

Abs(n) == IF n < 0 THEN 0 - n ELSE n

\* f'numeric({precision}, {abs(scale)})': abs(None) raises TypeError
NumericOf(precision, scale) ==
    IF scale.none THEN RuleRaises
    ELSE Evaluated(TypeString("numeric", <<precision, Some(Abs(scale.n))>>))

\* lines 15, 16, 20: name if scale == 0 else numeric(precision, abs(scale))
ScaledInteger(name, precision, scale) ==
    IF ~scale.none /\ scale.n = 0 THEN Evaluated(TypeString(name, << >>))
    ELSE NumericOf(precision, scale)

\* lines 27-29: name(length) if length and length > 0 else fallback
Sized(name, length, fallback) ==
    IF ~length.none /\ length.n # 0 /\ length.n > 0
    THEN Evaluated(TypeString(name, <<length>>))
    ELSE Evaluated(fallback)

\* _handle_blob_type lines 62-72
HandleBlobType(subtype) ==
    IF subtype.none THEN "bytea"
    ELSE IF subtype.n = 0 THEN "bytea"
    ELSE IF subtype.n = 1 THEN "text"
    ELSE "bytea"

\* the codes whose entry of type_mapping is a lambda, lines 13-49
CallableCodes == {7, 8, 16, 64, 14, 37, 40, 261, 80}

\* the codes whose entry of type_mapping is a string
PlainCodes == {9, 10, 11, 27, 12, 13, 35, 23, 17, 18, 45}

\* the string entries of type_mapping
PlainType(firebird_type) ==
    CASE firebird_type = 9 -> "bigint"
      [] firebird_type = 10 -> "real"
      [] firebird_type \in {11, 27} -> "double precision"
      [] firebird_type = 12 -> "date"
      [] firebird_type = 13 -> "time"
      [] firebird_type = 35 -> "timestamp"
      [] firebird_type = 23 -> "boolean"
      [] firebird_type \in {17, 18} -> "numeric"
      [] firebird_type = 45 -> "bytea"

\* type_handler(): the lambda entries of type_mapping and the default lambda
TypeHandler(firebird_type, length, precision, scale, subtype) ==
    CASE firebird_type = 7 -> ScaledInteger("smallint", precision, scale)
      [] firebird_type = 8 -> ScaledInteger("integer", precision, scale)
      [] firebird_type = 16 -> ScaledInteger("bigint", precision, scale)
      [] firebird_type = 64 ->
            IF precision.none THEN RuleRaises
            ELSE IF precision.n > 0 THEN NumericOf(precision, scale)
            ELSE Evaluated(TypeString("numeric", << >>))
      [] firebird_type = 14 -> Sized("char", length, TypeString("char", <<Some(1)>>))
      [] firebird_type \in {37, 40} -> Sized("varchar", length, TypeString("text", << >>))
      [] firebird_type = 261 -> Evaluated(TypeString(HandleBlobType(subtype), << >>))
      [] firebird_type = 80 -> Evaluated(TypeString("text[]", << >>))
      [] OTHER -> Evaluated(TypeString("text", << >>))

\* map_data_type without the try block around type_handler()
MapDataTypeUnguarded(firebird_type, length, precision, scale, subtype) ==
    IF firebird_type \in PlainCodes
    THEN [done |-> TRUE, raised |-> FALSE,
          type |-> TypeString(PlainType(firebird_type), << >>)]
    ELSE LET r == TypeHandler(firebird_type, length, precision, scale, subtype)
         IN  [done |-> TRUE, raised |-> r.raised, type |-> r.type]

\* map_data_type lines 7-61
MapDataType(firebird_type, length, precision, scale, subtype) ==
    IF firebird_type \in PlainCodes
    THEN [done |-> TRUE, raised |-> FALSE,
          type |-> TypeString(PlainType(firebird_type), << >>)]
    ELSE LET r == TypeHandler(firebird_type, length, precision, scale, subtype)
         IN  IF r.raised
             THEN [done |-> TRUE, raised |-> FALSE, type |-> TypeString("text", << >>)]
             ELSE [done |-> TRUE, raised |-> FALSE, type |-> r.type]

(***************************************************************************)
(* SpecMapType: one call of map_data_type, for every code of the mapping   *)
(* table and two codes outside it, and missing or small arguments.         *)
(***************************************************************************)
UnknownCodes == {0, 999}

OptionalArgs(S) == {NoArg} \cup {Some(n) : n \in S}

MapTypeInit ==
    /\ ProviderOff /\ RunOff /\ SortOff /\ MigOff /\ DataOff /\ ProcessOff
    /\ \E ft \in CallableCodes \cup PlainCodes \cup UnknownCodes,
          len \in OptionalArgs(0..MaxTypeArg),
          prec \in OptionalArgs(0..MaxTypeArg),
          sc \in OptionalArgs({0 - n : n \in 0..MaxTypeArg}),
          st \in OptionalArgs(0..2) :
         call = [firebird_type |-> ft, length |-> len, precision |-> prec,
                 scale |-> sc, subtype |-> st]
    /\ ret = [done |-> FALSE, raised |-> FALSE, type |-> TypeString("", << >>)]

MapTypeCall ==
    /\ ret # << >> /\ "type" \in DOMAIN ret /\ ~ret.done
    /\ ret' = MapDataType(call.firebird_type, call.length, call.precision,
                          call.scale, call.subtype)
    /\ UNCHANGED <<call, providerVars, configVars, runVars, sortVars, migVars,
                   dataVars, processVars>>

MapTypeNext == MapTypeCall

SpecMapType == MapTypeInit /\ [][MapTypeNext]_vars

(***************************************************************************)
(* SQLConverter (src/sql_converter.py).  A script is a sequence of tokens: *)
(* a word (\w+), a blank, a newline, or one of the marks ' " ; ( ) and the *)
(* two-character marks -- (line comment), /* and */ (block comment).       *)
(* In the scripts of SpecTranspile the characters - / * do not occur       *)
(* alone; the scripts of SpecScan are sequences of single characters.      *)
(***************************************************************************)
Spaces == {" ", TAB}
Whitespace == {" ", TAB, NL}
Marks == {SQ, DQ, ";", "(", ")", "--", "/*", "*/"}

IsWord(tok) == tok # "" /\ tok \notin Whitespace \cup Marks

\* str.upper() of the words of the scripts
Upper(tok) ==
    CASE tok = "not" -> "NOT"
      [] tok = "select" -> "SELECT"
      [] tok = "from" -> "FROM"
      [] tok = "create" -> "CREATE"
      [] tok = "table" -> "TABLE"
      [] tok = "trigger" -> "TRIGGER"
      [] tok = "procedure" -> "PROCEDURE"
      [] tok = "function" -> "FUNCTION"
      [] tok = "index" -> "INDEX"
      [] tok = "insert" -> "INSERT"
      [] tok = "as" -> "AS"
      [] tok = "end" -> "END"
      [] tok = "it" -> "IT"
      [] tok = "s" -> "S"
      [] tok = "a" -> "A"
      [] tok = "t" -> "T"
      [] tok = "comment" -> "COMMENT"
      [] OTHER -> tok

\* str.lower() of the words of the scripts
Lower(tok) ==
    CASE tok = "NOT" -> "not"
      [] tok = "SELECT" -> "select"
      [] tok = "FROM" -> "from"
      [] tok = "CREATE" -> "create"
      [] tok = "TABLE" -> "table"
      [] tok = "TRIGGER" -> "trigger"
      [] tok = "PROCEDURE" -> "procedure"
      [] tok = "FUNCTION" -> "function"
      [] tok = "INDEX" -> "index"
      [] tok = "INSERT" -> "insert"
      [] tok = "AS" -> "as"
      [] tok = "END" -> "end"
      [] tok = "T" -> "t"
      [] tok = "A" -> "a"
      [] tok = "TR" -> "tr"
      [] tok = "P" -> "p"
      [] tok = "F" -> "f"
      [] tok = "I" -> "i"
      [] tok = "I3" -> "i3"
      [] tok = "I1" -> "i1"
      [] tok = "I2" -> "i2"
      [] tok = "PK_T" -> "pk_t"
      [] tok = "FK_T" -> "fk_t"
      [] tok = "CK_T" -> "ck_t"
      [] tok = "U" -> "u"
      [] tok = "B" -> "b"
      [] tok = "G" -> "g"
      [] tok = "V" -> "v"
      [] OTHER -> tok

\* the token at position i, "" beyond the end
At(sql, i) == IF i \in 1..Len(sql) THEN sql[i] ELSE ""

\* _remove_comments_preserve_strings lines 196-201: the locals before the loop
ScanBegin ==
    [i |-> 1, result |-> << >>, in_string |-> FALSE, in_block_comment |-> FALSE,
     in_line_comment |-> FALSE, string_char |-> ""]

\* the two-character marks: as one token of a script, or as two characters
OpensLineComment(char, next_char) == char = "--" \/ (char = "-" /\ next_char = "-")
OpensBlockComment(char, next_char) == char = "/*" \/ (char = "/" /\ next_char = "*")
ClosesBlockComment(char, next_char) == char = "*/" \/ (char = "*" /\ next_char = "/")

\* the positions a two-character mark takes in the script
MarkWidth(char) == IF char \in {"--", "/*", "*/"} THEN 1 ELSE 2

\* the scan with the comment marks looked for before the string state
ScanStepMarksFirst(sc, sql) ==
    LET char == sql[sc.i]
        next_char == At(sql, sc.i + 1)
    IN  IF OpensLineComment(char, next_char) /\ ~sc.in_block_comment
        THEN [sc EXCEPT !.in_line_comment = TRUE, !.i = @ + MarkWidth(char)]
        ELSE IF sc.in_line_comment
        THEN IF char = NL
             THEN [sc EXCEPT !.in_line_comment = FALSE, !.result = Append(@, char),
                             !.i = @ + 1]
             ELSE [sc EXCEPT !.i = @ + 1]
        ELSE IF sc.in_block_comment
        THEN IF ClosesBlockComment(char, next_char)
             THEN [sc EXCEPT !.in_block_comment = FALSE, !.i = @ + MarkWidth(char)]
             ELSE [sc EXCEPT !.i = @ + 1]
        ELSE IF sc.in_string
        THEN IF char = sc.string_char
             THEN [sc EXCEPT !.result = Append(@, char), !.in_string = FALSE,
                             !.string_char = "", !.i = @ + 1]
             ELSE [sc EXCEPT !.result = Append(@, char), !.i = @ + 1]
        ELSE IF char \in {SQ, DQ}
        THEN [sc EXCEPT !.in_string = TRUE, !.string_char = char,
                        !.result = Append(@, char), !.i = @ + 1]
        ELSE [sc EXCEPT !.result = Append(@, char), !.i = @ + 1]

\* _remove_comments_preserve_strings lines 203-250: one pass of the while loop
ScanStep(sc, sql) ==
    LET char == sql[sc.i]
        next_char == At(sql, sc.i + 1)
    IN  IF sc.in_line_comment
        THEN IF char = NL
             THEN [sc EXCEPT !.in_line_comment = FALSE, !.result = Append(@, char),
                             !.i = @ + 1]
             ELSE [sc EXCEPT !.i = @ + 1]
        ELSE IF sc.in_block_comment
        THEN IF ClosesBlockComment(char, next_char)
             THEN [sc EXCEPT !.in_block_comment = FALSE, !.i = @ + MarkWidth(char)]
             ELSE [sc EXCEPT !.i = @ + 1]
        ELSE IF sc.in_string
        THEN IF char = sc.string_char
             THEN IF next_char = sc.string_char
                  THEN [sc EXCEPT !.result = @ \o <<char, next_char>>, !.i = @ + 2]
                  ELSE [sc EXCEPT !.result = Append(@, char), !.in_string = FALSE,
                                  !.string_char = "", !.i = @ + 1]
             ELSE [sc EXCEPT !.result = Append(@, char), !.i = @ + 1]
        ELSE IF char \in {SQ, DQ}
        THEN [sc EXCEPT !.in_string = TRUE, !.string_char = char,
                        !.result = Append(@, char), !.i = @ + 1]
        ELSE IF OpensLineComment(char, next_char)
        THEN [sc EXCEPT !.in_line_comment = TRUE, !.i = @ + MarkWidth(char)]
        ELSE IF OpensBlockComment(char, next_char)
        THEN [sc EXCEPT !.in_block_comment = TRUE, !.i = @ + MarkWidth(char)]
        ELSE [sc EXCEPT !.result = Append(@, char), !.i = @ + 1]

RECURSIVE ScanRun(_, _)
ScanRun(sc, sql) == IF sc.i > Len(sql) THEN sc ELSE ScanRun(ScanStep(sc, sql), sql)

\* _remove_comments_preserve_strings lines 194-252
RemoveCommentsPreserveStrings(sql) == ScanRun(ScanBegin, sql).result

\* re.sub(r'[ \t]+', ' ', sql) and re.sub(r'\n+', '\n', sql), lines 189-190
RECURSIVE CollapseRuns(_, _, _)
CollapseRuns(sql, class, one) ==
    IF sql = << >> THEN << >>
    ELSE IF Head(sql) \in class
    THEN IF Len(sql) > 1 /\ sql[2] \in class
         THEN CollapseRuns(Tail(sql), class, one)
         ELSE <<one>> \o CollapseRuns(Tail(sql), class, one)
    ELSE <<Head(sql)>> \o CollapseRuns(Tail(sql), class, one)

\* str.strip()
RECURSIVE StripWhitespace(_)
StripWhitespace(sql) ==
    IF sql = << >> THEN << >>
    ELSE IF Head(sql) \in Whitespace THEN StripWhitespace(Tail(sql))
    ELSE IF sql[Len(sql)] \in Whitespace THEN StripWhitespace(SubSeq(sql, 1, Len(sql) - 1))
    ELSE sql

\* _pre_process lines 179-192 (the scripts hold no carriage return)
PreProcess(sql) ==
    StripWhitespace(
        CollapseRuns(CollapseRuns(RemoveCommentsPreserveStrings(sql), Spaces, " "),
                     {NL}, NL))

\* the least position from i on that satisfies P, Len(sql) + 1 if none
FirstFrom(sql, i, P(_)) ==
    IF \E x \in i..Len(sql) : P(sql[x])
    THEN CHOOSE x \in i..Len(sql) : P(sql[x]) /\ \A y \in i..(x - 1) : ~P(sql[y])
    ELSE Len(sql) + 1

(***************************************************************************)
(* The patterns of the block-level stages, as sequences of elements:       *)
(*   word   one token, one of the given words whatever its case            *)
(*   name   (\w+)                                                          *)
(*   run    one token or more (min = 1), or any number (min = 0), of the   *)
(*          given words: \s+, \s*, (INSERT|UPDATE|DELETE|OR)+              *)
(*   except [^)]+ : one token or more, none of them one of the given       *)
(*   lazy   .*? : the fewest tokens after which the rest matches           *)
(*   ahead  (?=...|\Z) : one of the given words, or the end, comes next    *)
(* cap names the group an element opens.  The optional groups are left     *)
(* out: the scripts hold none of OR ALTER, ACTIVE, INACTIVE, DECLARE,      *)
(* RETURNS, UNIQUE, ASC, DESC, COMPUTED and ^, and no procedure has        *)
(* parameters.                                                             *)
(***************************************************************************)
Element(kind, words, min, cap) ==
    [kind |-> kind, words |-> words, min |-> min, cap |-> cap]

Word(words) == Element("word", words, 1, "")
Space == Element("run", Whitespace, 1, "")
MaybeSpace == Element("run", Whitespace, 0, "")
Lazy == Element("lazy", {}, 0, "")

\* _convert_triggers lines 331-334
TriggerPattern ==
    <<Word({"CREATE"}), Space, Word({"TRIGGER"}), Space,
      Element("name", {}, 1, "name"), Space,
      Element("word", {"BEFORE", "AFTER"}, 1, "timing"), Space,
      Element("run", {"INSERT", "UPDATE", "DELETE", "OR"}, 1, "events"), Lazy,
      Word({"AS"}), MaybeSpace, Element("word", {"BEGIN"}, 1, "body"), Lazy,
      Word({"END"})>>

\* _convert_procedures lines 372-375
ProcedurePattern ==
    <<Word({"CREATE"}), Space, Word({"PROCEDURE"}), Space,
      Element("name", {}, 1, "name"), MaybeSpace,
      Word({"AS"}), MaybeSpace, Element("word", {"BEGIN"}, 1, "body"), Lazy,
      Word({"END"})>>

\* _convert_functions lines 412-415
UdfPattern ==
    <<Word({"DECLARE"}), Space, Word({"EXTERNAL"}), Space, Word({"FUNCTION"}), Space,
      Element("name", {}, 1, "name"), Lazy, Word({";"})>>

\* _convert_indexes lines 437-440
IndexPattern ==
    <<Word({"CREATE"}), Space, Word({"INDEX"}), Space,
      Element("name", {}, 1, "name"), Space, Word({"ON"}), Space,
      Element("name", {}, 1, "table"), MaybeSpace, Word({"("}),
      Element("except", {")"}, 1, "body"), Word({")"})>>

\* _handle_domains lines 256-259
DomainPattern ==
    <<Word({"CREATE"}), Space, Word({"DOMAIN"}), Space,
      Element("name", {}, 1, "name"), Space, Element("lazy", {}, 0, "body"),
      Element("ahead", {"CREATE", "ALTER", "DROP", "INSERT", "UPDATE", "DELETE"}, 0, "")>>

\* GEN_ID\s*\(\s*(\w+)\s*,\s*(\d+)\s*\) of src/schema_converter.py lines 113
\* and 329
GenIdPattern ==
    <<Word({"GEN_ID"}), MaybeSpace, Word({"("}), MaybeSpace,
      Element("name", {}, 1, "name"), MaybeSpace, Word({","}), MaybeSpace,
      Element("name", {}, 1, ""), MaybeSpace, Word({")"})>>

Pattern(kind) ==
    CASE kind = "gen_id" -> GenIdPattern
      [] kind = "trigger" -> TriggerPattern
      [] kind = "procedure" -> ProcedurePattern
      [] kind = "udf" -> UdfPattern
      [] kind = "index" -> IndexPattern
      [] kind = "domain" -> DomainPattern

\* a match: where it ends and where each group begins
NoMatch == [ok |-> FALSE, end |-> 0, name |-> 0, table |-> 0, timing |-> 0,
            events |-> 0, body |-> 0]

InRun(e, tok) ==
    tok # "" /\ (IF e.kind = "except" THEN tok \notin e.words ELSE Upper(tok) \in e.words)

\* the match of the elements p.. of pat at position i of sql
RECURSIVE MatchFrom(_, _, _, _, _)
MatchFrom(pat, p, sql, i, groups) ==
    IF p > Len(pat) THEN [groups EXCEPT !.ok = TRUE, !.end = i]
    ELSE LET e == pat[p]
             seen == IF e.cap = "" THEN groups ELSE [groups EXCEPT ![e.cap] = i]
         IN  CASE e.kind = "word" ->
                    IF Upper(At(sql, i)) \in e.words
                    THEN MatchFrom(pat, p + 1, sql, i + 1, seen) ELSE NoMatch
               [] e.kind = "name" ->
                    IF IsWord(At(sql, i))
                    THEN MatchFrom(pat, p + 1, sql, i + 1, seen) ELSE NoMatch
               [] e.kind \in {"run", "except"} ->
                    LET stop == CHOOSE x \in i..(Len(sql) + 1) :
                                   /\ ~InRun(e, At(sql, x))
                                   /\ \A y \in i..(x - 1) : InRun(e, sql[y])
                    IN  IF stop - i >= e.min
                        THEN MatchFrom(pat, p + 1, sql, stop, seen) ELSE NoMatch
               [] e.kind = "ahead" ->
                    IF i > Len(sql) \/ Upper(At(sql, i)) \in e.words
                    THEN MatchFrom(pat, p + 1, sql, i, seen) ELSE NoMatch
               [] e.kind = "lazy" ->
                    LET rest == {x \in i..(Len(sql) + 1) :
                                    MatchFrom(pat, p + 1, sql, x, seen).ok}
                    IN  IF rest = {} THEN NoMatch
                        ELSE MatchFrom(pat, p + 1, sql,
                                       CHOOSE x \in rest : \A y \in rest : x <= y, seen)

BlockMatch(kind, sql, i) == MatchFrom(Pattern(kind), 1, sql, i, NoMatch)

\* _handle_domains lines 268-271: the base types without arguments
BaseType(tok) ==
    Upper(tok) \in {"INTEGER", "SMALLINT", "BIGINT", "DATE", "TIME", "TIMESTAMP", "BLOB"}

\* the texts of replace_trigger (lines 353-364), replace_procedure (394-402),
\* replace_udf (420), replace_index (451) and extract_domain (278)
BlockText(kind, sql, m) ==
    CASE kind = "gen_id" -> <<"nextval", "(", SQ, sql[m.name], SQ, ")">>
      [] kind = "trigger" ->
            <<NL, "-- TRIGGER ", sql[m.name], " - CONVERTED (requires manual review)", NL,
              "-- Original Firebird trigger converted to PostgreSQL", NL,
              "CREATE OR REPLACE FUNCTION ", Lower(sql[m.name]), "_func() ", NL,
              "RETURNS TRIGGER AS $", NL, NL>>
            \o SubSeq(sql, m.body, m.end - 1)
            \o <<NL, "$ LANGUAGE plpgsql;", NL, NL,
                 "-- Note: Verify table name and adjust timing/events as needed", NL,
                 "-- CREATE TRIGGER ", Lower(sql[m.name]), " ", sql[m.timing], " ",
                 sql[m.events], " ON your_table_name", NL,
                 "-- FOR EACH ROW EXECUTE FUNCTION ", Lower(sql[m.name]), "_func();", NL>>
      [] kind = "procedure" ->
            <<NL, "-- PROCEDURE ", sql[m.name], " - CONVERTED (requires manual review)", NL,
              "CREATE OR REPLACE FUNCTION ", Lower(sql[m.name]), "()", " ", NL,
              "RETURNS VOID", " AS $", NL, NL>>
            \o SubSeq(sql, m.body, m.end - 1)
            \o <<NL, "$ LANGUAGE plpgsql;", NL>>
      [] kind = "udf" ->
            <<"-- UDF ", sql[m.name], " removed - implement in PostgreSQL if needed", NL>>
      [] kind = "index" ->
            <<"CREATE", " ", "INDEX", " ", DQ, Lower(sql[m.name]), DQ, " ", "ON", " ",
              DQ, Lower(sql[m.table]), DQ, " ", "(">>
            \o SubSeq(sql, m.body, m.end - 2) \o <<")", ";">>
      [] kind = "domain" -> << >>

\* the warning a replacement appends: none for an index (lines 442-451), and
\* none for a domain unless its definition names a base type (lines 274-277)
BlockWarnings(kind, sql, m) ==
    CASE kind = "gen_id" -> << >>
      [] kind = "trigger" -> <<Note("trigger_revisao", sql[m.name])>>
      [] kind = "procedure" -> <<Note("procedure_revisao", sql[m.name])>>
      [] kind = "udf" -> <<Note("udf_removida", sql[m.name])>>
      [] kind = "index" -> << >>
      [] kind = "domain" ->
            IF \E x \in m.body..(m.end - 1) : BaseType(sql[x])
            THEN <<Note("domain_convertido", sql[m.name])>> ELSE << >>

\* lines 274-276: domains[domain_name.upper()] = base_type
BlockDomains(kind, sql, m) ==
    IF kind = "domain" /\ \E x \in m.body..(m.end - 1) : BaseType(sql[x])
    THEN <<[name |-> Upper(sql[m.name]), base_type |-> sql[FirstFrom(sql, m.body, BaseType)]]>>
    ELSE << >>

\* pattern.sub(replace, sql): every match from left to right
RECURSIVE ConvertBlocks(_, _, _, _)
ConvertBlocks(kind, sql, i, acc) ==
    LET hits == {x \in i..Len(sql) : BlockMatch(kind, sql, x).ok}
    IN  IF hits = {} THEN [acc EXCEPT !.sql = @ \o SubSeq(sql, i, Len(sql))]
        ELSE LET x == CHOOSE h \in hits : \A y \in hits : h <= y
                 m == BlockMatch(kind, sql, x)
             IN  ConvertBlocks(kind, sql, m.end,
                     [sql |-> acc.sql \o SubSeq(sql, i, x - 1) \o BlockText(kind, sql, m),
                      warnings |-> acc.warnings \o BlockWarnings(kind, sql, m),
                      domains |-> acc.domains \o BlockDomains(kind, sql, m)])

\* _convert_triggers (329-368), _convert_procedures (370-408),
\* _convert_functions (410-423), _convert_indexes (435-453) and the
\* domain_pattern.sub of _handle_domains (280): [sql, warnings, domains]
ConvertStage(kind, sql) ==
    ConvertBlocks(kind, sql, 1, [sql |-> << >>, warnings |-> << >>, domains |-> << >>])

\* lines 283-285: the uses of the recognized domains become their base types
RECURSIVE SubstituteDomains(_, _)
SubstituteDomains(sql, domains) ==
    IF domains = << >> THEN sql
    ELSE SubstituteDomains(
             [x \in 1..Len(sql) |->
                 IF Upper(sql[x]) = Head(domains).name THEN Head(domains).base_type
                 ELSE sql[x]],
             Tail(domains))

\* _handle_domains lines 254-286: [sql, warnings, domains]
HandleDomains(sql) ==
    [ConvertStage("domain", sql)
        EXCEPT !.sql = SubstituteDomains(@, ConvertStage("domain", sql).domains)]


\* the rule (r'--.*$', '') of line 126 with re.MULTILINE: from a -- to the
\* end of its line
RECURSIVE RemoveToEndOfLine(_, _)
RemoveToEndOfLine(sql, skipping) ==
    IF sql = << >> THEN << >>
    ELSE IF Head(sql) = NL THEN <<NL>> \o RemoveToEndOfLine(Tail(sql), FALSE)
    ELSE IF skipping \/ Head(sql) = "--" THEN RemoveToEndOfLine(Tail(sql), TRUE)
    ELSE <<Head(sql)>> \o RemoveToEndOfLine(Tail(sql), FALSE)

\* the rule (r'\bFLOAT\b', 'DOUBLE PRECISION') of line 58
FloatRule(sql) ==
    Flatten([x \in 1..Len(sql) |->
                IF Upper(sql[x]) = "FLOAT" THEN <<"DOUBLE", " ", "PRECISION">>
                ELSE <<sql[x]>>])

\* _apply_rules lines 288-300 with the rules of _init_rules (lines 50-129)
\* that change a script of the words used here: FLOAT and the line comment
ApplyRules(sql) == RemoveToEndOfLine(FloatRule(sql), FALSE)

\* _get_postgres_keywords lines 35-47
PostgresKeywords ==
    {"user", "order", "group", "limit", "offset", "select", "from", "where", "join",
     "inner", "outer", "left", "right", "full", "cross", "union", "intersect",
     "except", "all", "distinct", "case", "when", "then", "else", "end", "if",
     "exists", "in", "like", "between", "null", "true", "false", "and", "or", "not",
     "is", "as", "table", "column", "constraint", "primary", "foreign", "key",
     "references", "check", "unique", "index", "create", "drop", "alter", "insert",
     "update", "delete", "grant", "revoke", "commit", "rollback", "transaction",
     "schema", "view", "function", "procedure", "trigger", "sequence"}

\* lines 315-324: every keyword of a part outside the literals is put in
\* double quotes, once for each time the word occurs in the part
QuoteKeywords(part) ==
    Flatten([x \in 1..Len(part) |->
        IF IsWord(part[x]) /\ Lower(part[x]) \in PostgresKeywords
        THEN LET k == Cardinality({y \in 1..Len(part) : Upper(part[y]) = Upper(part[x])})
                 quotes == [q \in 1..k |-> DQ]
             IN  quotes \o <<Lower(part[x])>> \o quotes
        ELSE <<part[x]>>])

\* lines 304-326: re.split on ('.*?'|".*?") and the parts joined again; the
\* words of the scripts are all upper case or all lower case, so the
\* snake_case rewrite of lines 309-313 leaves them alone
RECURSIVE ConvertParts(_, _, _)
ConvertParts(sql, i, part) ==
    IF i > Len(sql) THEN QuoteKeywords(part)
    ELSE IF sql[i] \in {SQ, DQ} /\ \E j \in (i + 1)..Len(sql) : sql[j] = sql[i]
    THEN LET j == CHOOSE x \in (i + 1)..Len(sql) :
                      sql[x] = sql[i] /\ \A y \in (i + 1)..(x - 1) : sql[y] # sql[i]
         IN  QuoteKeywords(part) \o SubSeq(sql, i, j) \o ConvertParts(sql, j + 1, << >>)
    ELSE ConvertParts(sql, i + 1, Append(part, sql[i]))

\* _convert_identifiers lines 302-327
ConvertIdentifiers(sql) == ConvertParts(sql, 1, << >>)

\* _convert_views lines 425-433 only counts the views, and every pattern of
\* _fix_data_types (lines 455-467) names a type the scripts do not hold
ConvertViews(sql) == sql
FixDataTypes(sql) == sql

\* re.sub(r'\n\s*\n\s*\n+', '\n\n', sql), line 472: in a run of whitespace
\* with three newlines or more, the first newline to the last become two
RECURSIVE CollapseBlankLines(_)
CollapseBlankLines(sql) ==
    IF sql = << >> THEN << >>
    ELSE IF Head(sql) # NL THEN <<Head(sql)>> \o CollapseBlankLines(Tail(sql))
    ELSE LET stop == FirstFrom(sql, 1, LAMBDA tok : tok \notin Whitespace)
             newlines == {x \in 1..(stop - 1) : sql[x] = NL}
             last == CHOOSE x \in newlines : \A y \in newlines : y <= x
         IN  IF Cardinality(newlines) >= 3
             THEN <<NL, NL>> \o CollapseBlankLines(SubSeq(sql, last + 1, Len(sql)))
             ELSE SubSeq(sql, 1, stop - 1)
                  \o CollapseBlankLines(SubSeq(sql, stop, Len(sql)))

\* the header of lines 479-498, one token: it holds the time of the call
Header == "header"

\* _post_process_sql lines 469-506 (the scripts hold no ^ terminator)
PostProcess(sql) == <<Header>> \o StripWhitespace(CollapseBlankLines(sql)) \o <<NL>>

(***************************************************************************)
(* SpecTranspile: one call of convert_sql_script on a script of at most    *)
(* MaxPieces lines, each one of the statements below.                      *)
(***************************************************************************)
MaxPieces == 2

CommentLine == <<"--", " ", "comment">>
ScenarioSelect ==
    <<"SELECT", " ", SQ, "it", SQ, SQ, "s", " ", "--", " ", "not", " ", "a", " ",
      "comment", SQ, " ", "FROM", " ", "t", ";">>
QuotedIndex ==
    <<"SELECT", " ", SQ, "CREATE", " ", "INDEX", " ", "I3", " ", "ON", " ", "T", " ",
      "(", "A", ")", SQ, " ", "FROM", " ", "t", ";">>
DomainKnown == <<"CREATE", " ", "DOMAIN", " ", "D_X", " ", "AS", " ", "INTEGER", ";">>
DomainUnknown == <<"CREATE", " ", "DOMAIN", " ", "D_Y", " ", "AS", " ", "FLOAT", ";">>
TableOfDomain == <<"CREATE", " ", "TABLE", " ", "T", " ", "(", "A", " ", "D_X", ")", ";">>
TableOfFloat == <<"CREATE", " ", "TABLE", " ", "U", " ", "(", "B", " ", "FLOAT", ")", ";">>
TriggerBlock ==
    <<"CREATE", " ", "TRIGGER", " ", "TR", " ", "BEFORE", " ", "INSERT", " ", "AS",
      " ", "BEGIN", " ", "X", " ", "END">>
TriggerMalformed ==
    <<"CREATE", " ", "TRIGGER", " ", "TR2", " ", "BEFORE", " ", "INSERT", " ", "AS",
      " ", "X", " ", "END">>
ProcedureBlock ==
    <<"CREATE", " ", "PROCEDURE", " ", "P", " ", "AS", " ", "BEGIN", " ", "X", " ",
      "END">>
UdfBlock == <<"DECLARE", " ", "EXTERNAL", " ", "FUNCTION", " ", "F", ";">>
IndexBlock ==
    <<"CREATE", " ", "INDEX", " ", "I", " ", "ON", " ", "T", " ", "(", "A", ")", ";">>
IndexMalformed == <<"CREATE", " ", "INDEX", " ", "I2", " ", "ON", " ", "T", ";">>

Pieces ==
    {CommentLine, ScenarioSelect, QuotedIndex, DomainKnown, DomainUnknown,
     TableOfDomain, TableOfFloat, TriggerBlock, TriggerMalformed, ProcedureBlock,
     UdfBlock, IndexBlock, IndexMalformed}

RECURSIVE JoinLines(_)
JoinLines(lines) ==
    IF Len(lines) = 1 THEN Head(lines)
    ELSE Head(lines) \o <<NL>> \o JoinLines(Tail(lines))

Scripts ==
    {JoinLines(lines) : lines \in UNION {[1..n -> Pieces] : n \in 1..MaxPieces}}

\* convert_sql_script lines 132-152: the script as passed and the stats
\* (their warnings and errors) as built before the first stage
TranspileInit ==
    /\ ProviderOff /\ RunOff /\ SortOff /\ MigOff /\ DataOff /\ ProcessOff
    /\ \E script \in Scripts : call = [sql_content |-> script]
    /\ ret = [pc |-> "pre_process", sql |-> call.sql_content, warnings |-> << >>,
              errors |-> << >>]

Text(sql) == [sql |-> sql, warnings |-> << >>]

\* sql_content = self._<stage>(sql_content, stats): one line of 155-168
Stage(at, to, out) ==
    /\ ret # << >> /\ ret.pc = at
    /\ ret' = [ret EXCEPT !.pc = to, !.sql = out.sql, !.warnings = @ \o out.warnings]
    /\ UNCHANGED <<call, providerVars, configVars, runVars, sortVars, migVars,
                   dataVars, processVars>>

TranspilePreProcess ==
    ret # << >> /\ Stage("pre_process", "handle_domains", Text(PreProcess(ret.sql)))
TranspileHandleDomains ==
    ret # << >> /\ Stage("handle_domains", "apply_rules", HandleDomains(ret.sql))
TranspileApplyRules ==
    ret # << >> /\ Stage("apply_rules", "convert_identifiers", Text(ApplyRules(ret.sql)))
TranspileConvertIdentifiers ==
    ret # << >> /\ Stage("convert_identifiers", "convert_triggers",
                         Text(ConvertIdentifiers(ret.sql)))
TranspileConvertTriggers ==
    ret # << >> /\ Stage("convert_triggers", "convert_procedures",
                         ConvertStage("trigger", ret.sql))
TranspileConvertProcedures ==
    ret # << >> /\ Stage("convert_procedures", "convert_functions",
                         ConvertStage("procedure", ret.sql))
TranspileConvertFunctions ==
    ret # << >> /\ Stage("convert_functions", "convert_views",
                         ConvertStage("udf", ret.sql))
TranspileConvertViews ==
    ret # << >> /\ Stage("convert_views", "convert_indexes", Text(ConvertViews(ret.sql)))
TranspileConvertIndexes ==
    ret # << >> /\ Stage("convert_indexes", "fix_data_types",
                         ConvertStage("index", ret.sql))
TranspileFixDataTypes ==
    ret # << >> /\ Stage("fix_data_types", "post_process", Text(FixDataTypes(ret.sql)))
\* lines 171-174: the converted script and the stats are returned
TranspilePostProcess ==
    ret # << >> /\ Stage("post_process", "done", Text(PostProcess(ret.sql)))

\* the stages of lines 155-169, in order
TranspileStages ==
    {"pre_process", "handle_domains", "apply_rules", "convert_identifiers",
     "convert_triggers", "convert_procedures", "convert_functions", "convert_views",
     "convert_indexes", "fix_data_types", "post_process"}

\* lines 174-177: a stage raises (MemoryError, RecursionError, re.error ...);
\* the except branch appends the message to stats['errors'] and returns
\* sql_content as the stages before the failing one have left it
TranspileFault ==
    /\ ret # << >> /\ ret.pc \in TranspileStages
    /\ ret' = [ret EXCEPT !.pc = "failed",
                          !.errors = Append(@, Note("erro_conversao", ret.pc))]
    /\ UNCHANGED <<call, providerVars, configVars, runVars, sortVars, migVars,
                   dataVars, processVars>>

TranspileNext ==
    \/ TranspileFault
    \/ TranspilePreProcess
    \/ TranspileHandleDomains
    \/ TranspileApplyRules
    \/ TranspileConvertIdentifiers
    \/ TranspileConvertTriggers
    \/ TranspileConvertProcedures
    \/ TranspileConvertFunctions
    \/ TranspileConvertViews
    \/ TranspileConvertIndexes
    \/ TranspileFixDataTypes
    \/ TranspilePostProcess

SpecTranspile == TranspileInit /\ [][TranspileNext]_vars

(***************************************************************************)
(* SchemaConverter.convert_table_schema and generate_constraints, on the   *)
(* table schema FirebirdClient.get_table_schema builds from the system     *)
(* tables.  An emitted identifier is its text and whether it is inside     *)
(* double quotes; a statement is a record of its identifiers.              *)
(***************************************************************************)
MaxIndexes == 1

Ident(text, quoted) == [text |-> text, quoted |-> quoted]
NoIdent == Ident("", FALSE)

\* f'"{name.lower()}"'
QuotedLower(name) == Ident(Lower(name), TRUE)

Statement(kind) ==
    [kind |-> kind, name |-> NoIdent, table |-> NoIdent, columns |-> << >>,
     primary_key |-> << >>, defaults |-> << >>, ref_table |-> NoIdent,
     ref_columns |-> << >>, rules |-> << >>, condition |-> << >>]

\* the index names of RDB$INDICES the two provider queries tell apart
StartsWithRdbPrimary(name) == name = "RDB$PRIMARY1"
StartsWithPk(name) == name = "PK_T"
StartsWithRdbForeign(name) == name = "RDB$FOREIGN1"

\* _get_primary_key lines 253-270: the segments of the indexes named
\* RDB$PRIMARY... or PK_..., None (here << >>) when there are none
GetPrimaryKey(indices) ==
    Flatten([x \in 1..Len(indices) |->
                IF StartsWithRdbPrimary(indices[x].name) \/ StartsWithPk(indices[x].name)
                THEN indices[x].fields ELSE << >>])

\* _get_indexes lines 272-313: every index but those named RDB$PRIMARY...
\* or RDB$FOREIGN..., each with its columns under the key 'fields'
GetIndexes(indices) ==
    SelectSeq([x \in 1..Len(indices) |->
                  [name |-> indices[x].name, fields |-> indices[x].fields,
                   unique |-> indices[x].unique, type |-> 0]],
              LAMBDA idx : ~StartsWithRdbPrimary(idx.name) /\ ~StartsWithRdbForeign(idx.name))

\* idx.get('field', ''): the provider's indexes have no key 'field'
IdxGetField(idx) == IF "field" \in DOMAIN idx THEN idx.field ELSE ""

\* generate_constraints lines 218-222, the filter of the unique indexes
IsUniqueIndex(table_schema, idx) ==
    /\ idx.unique /\ idx.name # ""
    /\ ~(table_schema.primary_key # << >>
         /\ {IdxGetField(idx)} = Range(table_schema.primary_key))

\* lines 235-236, the filter of the other indexes
IsRegularIndex(table_schema, idx) == ~idx.unique /\ idx.name # ""

\* lines 224-232 and 238-246: one index statement
IndexStatement(kind, table_schema, index) ==
    [Statement(kind) EXCEPT
        !.name = QuotedLower(index.name),
        !.table = QuotedLower(table_schema.name),
        !.columns = [x \in 1..Len(index.fields) |-> QuotedLower(index.fields[x])]]

\* lines 259-277: the rules other than NO ACTION that are written out
RuleMapping(rule) ==
    IF rule \in {"CASCADE", "SET NULL", "SET DEFAULT", "RESTRICT"}
    THEN <<rule>> ELSE << >>

\* lines 249-280: one foreign-key statement
ForeignKeyStatement(table_schema, fk) ==
    [Statement("foreign_key") EXCEPT
        !.name = QuotedLower(fk.name),
        !.table = QuotedLower(table_schema.name),
        !.columns = <<QuotedLower(fk.source_field)>>,
        !.ref_table = QuotedLower(fk.target_table),
        !.ref_columns = <<QuotedLower(fk.target_field)>>,
        !.rules = RuleMapping(fk.delete_rule) \o RuleMapping(fk.update_rule)]

\* line 287: re.sub(r'\bNEW\.(\w+)', r'"\1"', condition): the qualifier goes
\* and the column is put in double quotes as it is written
RewriteNew(condition) ==
    Flatten([x \in 1..Len(condition) |->
                IF condition[x] = "NEW." THEN << >>
                ELSE IF x > 1 /\ condition[x - 1] = "NEW."
                THEN <<DQ, condition[x], DQ>>
                ELSE <<condition[x]>>])

\* lines 282-291: one check statement, none for an empty condition
CheckStatements(table_schema, check) ==
    IF check.condition = << >> THEN << >>
    ELSE <<[Statement("check") EXCEPT
               !.name = QuotedLower(check.name),
               !.table = QuotedLower(table_schema.name),
               !.condition = RewriteNew(check.condition)]>>

\* generate_constraints lines 211-293
GenerateTableConstraints(table_schema) ==
    LET unique_indexes == SelectSeq(table_schema.indexes,
                                    LAMBDA idx : IsUniqueIndex(table_schema, idx))
        regular_indexes == SelectSeq(table_schema.indexes,
                                     LAMBDA idx : IsRegularIndex(table_schema, idx))
    IN  [x \in 1..Len(unique_indexes) |->
            IndexStatement("unique_index", table_schema, unique_indexes[x])]
        \o [x \in 1..Len(regular_indexes) |->
               IndexStatement("index", table_schema, regular_indexes[x])]
        \o [x \in 1..Len(table_schema.foreign_keys) |->
               ForeignKeyStatement(table_schema, table_schema.foreign_keys[x])]
        \o Flatten([x \in 1..Len(table_schema.check_constraints) |->
                       CheckStatements(table_schema, table_schema.check_constraints[x])])

\* convert_default_value lines 76-159, for the defaults of the schemas
\* here: none, NULL, a number, a GEN_ID call, a bare word
ConvertDefaultValue(default_value) ==
    IF default_value = << >> THEN << >>
    ELSE IF default_value = <<"NULL">> THEN <<"NULL">>
    ELSE IF BlockMatch("gen_id", default_value, 1).ok
    THEN <<"nextval", "(", SQ, Lower(default_value[BlockMatch("gen_id", default_value, 1).name]),
           SQ, ")">>
    ELSE IF default_value = <<"0">> THEN default_value
    ELSE <<SQ>> \o default_value \o <<SQ>>

\* convert_table_schema lines 194-197: the DEFAULT clause of a column
DefaultClause(column) ==
    IF column.default # << >> /\ ConvertDefaultValue(column.default) \notin {<< >>, <<"NULL">>}
    THEN ConvertDefaultValue(column.default) ELSE << >>

\* convert_table_schema lines 161-209
ConvertTableSchema(table_schema) ==
    [Statement("create_table") EXCEPT
        !.table = QuotedLower(table_schema.name),
        !.columns = [x \in 1..Len(table_schema.columns) |->
                        QuotedLower(table_schema.columns[x].name)],
        !.defaults = [x \in 1..Len(table_schema.columns) |->
                         DefaultClause(table_schema.columns[x])],
        !.primary_key = [x \in 1..Len(table_schema.primary_key) |->
                            QuotedLower(table_schema.primary_key[x])]]

\* generate_sequences lines 295-310: CREATE SEQUENCE "name", and a setval
\* of '"name"' when the current value is positive
GenerateSequenceStatements(gens) ==
    Flatten([x \in 1..Len(gens) |->
        <<[Statement("create_sequence") EXCEPT !.name = QuotedLower(gens[x].name)]>>
        \o (IF gens[x].current_value > 0
            THEN <<[Statement("setval") EXCEPT !.name = QuotedLower(gens[x].name)]>>
            ELSE << >>)])

\* convert_view_schema lines 312-332: the definition starts with SELECT in
\* the schemas here
ConvertViewSchema(view_name, view_definition) ==
    [Statement("view") EXCEPT
        !.name = QuotedLower(view_name),
        !.condition = ConvertStage("gen_id", view_definition).sql]

\* format_column_name lines 38-42 over list(data_batch[0].keys()), and the
\* table name of line 162
InsertHeader(table_name, columns) ==
    [Statement("insert") EXCEPT
        !.table = QuotedLower(table_name),
        !.columns = [x \in 1..Len(columns) |-> QuotedLower(columns[x])]]

(***************************************************************************)
(* SpecSchema: the statements of one table, in the order                   *)
(* generate_complete_sql asks for them: sequences, create-table, view,     *)
(* insert header, constraints.                                             *)
(***************************************************************************)
ColumnNames == <<"A", "P">>
FieldLists == {<<"A">>, <<"P">>, <<"A", "P">>}
Defaults ==
    {<< >>, <<"NULL">>, <<"0">>, <<"X">>, <<"GEN_ID", "(", "G", ",", " ", "1", ")">>}
Conditions ==
    {<< >>, <<"A", ">", "0">>, <<"NEW.", "A", ">", "0">>}

\* RDB$INDICES of the table: no primary key, or one whose index is named by
\* the system or after its constraint, then the other indexes by name
PrimaryIndices ==
    {<< >>} \cup {<<[name |-> n, unique |-> TRUE, fields |-> f]>> :
                    n \in {"RDB$PRIMARY1", "PK_T"}, f \in FieldLists}
OtherIndices ==
    UNION {[1..n -> [unique : BOOLEAN, fields : FieldLists]] : n \in 0..MaxIndexes}
IndexName(x) == IF x = 1 THEN "I1" ELSE IF x = 2 THEN "I2" ELSE "I3"
NamedIndices(others) ==
    [x \in 1..Len(others) |->
        [name |-> IndexName(x), unique |-> others[x].unique, fields |-> others[x].fields]]

\* get_table_schema lines 179-249
GetTableSchema(indices, default, fks, checks) ==
    [name |-> "T",
     columns |-> <<[name |-> "A", default |-> default], [name |-> "P", default |-> << >>]>>,
     primary_key |-> GetPrimaryKey(indices),
     indexes |-> GetIndexes(indices),
     foreign_keys |-> fks,
     check_constraints |-> checks]

ForeignKeyLists ==
    {<< >>} \cup {<<[name |-> "FK_T", source_field |-> "P", target_table |-> "U",
                     target_field |-> "B", delete_rule |-> r, update_rule |-> "NO ACTION"]>> :
                    r \in {"NO ACTION", "CASCADE"}}
CheckLists ==
    {<< >>} \cup {<<[name |-> "CK_T", condition |-> c]>> : c \in Conditions}

SchemaInit ==
    /\ ProviderOff /\ RunOff /\ SortOff /\ MigOff /\ DataOff /\ ProcessOff
    /\ \E primary \in PrimaryIndices, others \in OtherIndices, default \in Defaults,
          fks \in ForeignKeyLists, checks \in CheckLists :
         call = [indices |-> NamedIndices(others) \o primary,
                 table_schema |-> GetTableSchema(NamedIndices(others) \o primary,
                                                 default, fks, checks),
                 generators |-> <<[name |-> "G", current_value |-> 1]>>,
                 view |-> [name |-> "V",
                           definition |-> <<"SELECT", " ", "GEN_ID", "(", "G", ",", "1", ")",
                                            " ", "FROM", " ", "T">>]]
    /\ ret = [pc |-> "sequences", statements |-> << >>]

SchemaStep(at, to, statements) ==
    /\ ret # << >> /\ ret.pc = at
    /\ ret' = [pc |-> to, statements |-> ret.statements \o statements]
    /\ UNCHANGED <<call, providerVars, configVars, runVars, sortVars, migVars,
                   dataVars, processVars>>

SchemaSequences ==
    ret # << >> /\ SchemaStep("sequences", "schema",
                              GenerateSequenceStatements(call.generators))
SchemaCreateTable ==
    ret # << >> /\ SchemaStep("schema", "views", <<ConvertTableSchema(call.table_schema)>>)
SchemaView ==
    ret # << >> /\ SchemaStep("views", "data",
                              <<ConvertViewSchema(call.view.name, call.view.definition)>>)
SchemaInsertHeader ==
    ret # << >> /\ SchemaStep("data", "constraints",
                              <<InsertHeader(call.table_schema.name, ColumnNames)>>)
SchemaConstraints ==
    ret # << >> /\ SchemaStep("constraints", "done",
                              GenerateTableConstraints(call.table_schema))

SchemaNext ==
    \/ SchemaSequences
    \/ SchemaCreateTable
    \/ SchemaView
    \/ SchemaInsertHeader
    \/ SchemaConstraints

SpecSchema == SchemaInit /\ [][SchemaNext]_vars

(***************************************************************************)
(* SpecScan: one call of SQLConverter._remove_comments_preserve_strings on *)
(* a text of single characters, a step per pass of its while loop.         *)
(***************************************************************************)
MaxScanLen == 4

ScanAlphabet == {SQ, DQ, "-", "/", "*", NL, "a"}

RECURSIVE ScanTexts(_)
ScanTexts(n) ==
    IF n = 0 THEN {<< >>}
    ELSE ScanTexts(n - 1)
         \cup {Append(t, c) : t \in {u \in ScanTexts(n - 1) : Len(u) = n - 1},
                              c \in ScanAlphabet}

ScanInit ==
    /\ ProviderOff /\ RunOff /\ SortOff /\ MigOff /\ DataOff /\ ProcessOff
    /\ \E sql \in ScanTexts(MaxScanLen) : call = [sql |-> sql]
    /\ ret = [pc |-> "scan", sc |-> ScanBegin, text |-> << >>]

\* lines 203-250: the loop condition holds, one pass
ScanPass ==
    /\ ret.pc = "scan"
    /\ ret.sc.i <= Len(call.sql)
    /\ ret' = [ret EXCEPT !.sc = ScanStep(ret.sc, call.sql)]
    /\ UNCHANGED <<call, providerVars, configVars, runVars, sortVars, migVars,
                   dataVars, processVars>>

\* line 252: the loop condition is false, the result is joined and returned
ScanReturn ==
    /\ ret.pc = "scan"
    /\ ~(ret.sc.i <= Len(call.sql))
    /\ ret' = [ret EXCEPT !.pc = "done", !.text = ret.sc.result]
    /\ UNCHANGED <<call, providerVars, configVars, runVars, sortVars, migVars,
                   dataVars, processVars>>

ScanNext == ScanPass \/ ScanReturn

\* the loop is sequential code: a pass that can be taken is taken
SpecScan == ScanInit /\ [][ScanNext]_vars /\ WF_vars(ScanNext)

(***************************************************************************)
(* SpecInsert: one call of DataMigrator.generate_insert_statements, a step *)
(* per pass of its chunk loop.  A page is the list of its row numbers; the *)
(* rows of a page have the columns of its first row.  The page sizes are   *)
(* 1..InsMaxBatch and one, LargeBatch, whose quarter is above MaxChunk.    *)
(***************************************************************************)
InsMaxBatch == 12

InsMaxRows == 9

LargeBatch == (MaxChunk + 1) * ChunkDivisor

LargePages == {MaxChunk, MaxChunk + 1, 2 * MaxChunk + 1}

\* line 168: data_batch[i:i + chunk_size], i counted from 0
ChunkSliceInclusive(data_batch, i, chunk_size) ==
    SubSeq(data_batch, i + 1, Min(i + chunk_size + 1, Len(data_batch)))

ChunkSlice(data_batch, i, chunk_size) ==
    SubSeq(data_batch, i + 1, Min(i + chunk_size, Len(data_batch)))

\* lines 159-160 and 181-183: one statement, the column list and the tuples
InsertStatement(columns, values_lines) ==
    [columns |-> [x \in 1..Len(columns) |-> QuotedLower(columns[x])],
     values_lines |-> values_lines]

InsertInit ==
    /\ ProviderOff /\ RunOff /\ SortOff /\ MigOff /\ DataOff /\ ProcessOff
    /\ \E sizes \in {[bs |-> b, n |-> n] : b \in 1..InsMaxBatch, n \in 0..InsMaxRows}
                    \cup {[bs |-> LargeBatch, n |-> n] : n \in LargePages} :
         call = [data_batch |-> [r \in 1..sizes.n |-> r], batch_size |-> sizes.bs,
                 columns |-> ColumnNames]
    /\ ret = [pc |-> "start", i |-> 0, chunk_size |-> 0,
              insert_statements |-> << >>, text |-> << >>]

\* lines 149-150: an empty page gives the empty text
InsertEmpty ==
    /\ ret.pc = "start"
    /\ call.data_batch = << >>
    /\ ret' = [ret EXCEPT !.pc = "returned", !.text = << >>]
    /\ UNCHANGED <<call, providerVars, configVars, runVars, sortVars, migVars,
                   dataVars, processVars>>

\* lines 152-165: the columns, the chunk size and the empty statement list
InsertPrepare ==
    /\ ret.pc = "start"
    /\ call.data_batch # << >>
    /\ ret' = [ret EXCEPT !.pc = "loop", !.chunk_size = ChunkSize(call.batch_size),
                          !.insert_statements = << >>]
    /\ UNCHANGED <<call, providerVars, configVars, runVars, sortVars, migVars,
                   dataVars, processVars>>

\* line 167: range() with a zero step raises ValueError
InsertZeroStep ==
    /\ ret.pc = "loop"
    /\ ret.chunk_size = 0
    /\ ret' = [ret EXCEPT !.pc = "raised"]
    /\ UNCHANGED <<call, providerVars, configVars, runVars, sortVars, migVars,
                   dataVars, processVars>>

\* lines 167-187: one pass of the chunk loop
InsertChunk ==
    /\ ret.pc = "loop"
    /\ ret.chunk_size > 0
    /\ ret.i < Len(call.data_batch)
    /\ ret' = [ret EXCEPT
                 !.insert_statements =
                     Append(@, InsertStatement(call.columns,
                                   ChunkSlice(call.data_batch, ret.i, ret.chunk_size))),
                 !.i = @ + ret.chunk_size]
    /\ UNCHANGED <<call, providerVars, configVars, runVars, sortVars, migVars,
                   dataVars, processVars>>

\* line 189: the range is exhausted, the statements are joined and returned
InsertJoin ==
    /\ ret.pc = "loop"
    /\ ret.chunk_size > 0
    /\ ~(ret.i < Len(call.data_batch))
    /\ ret' = [ret EXCEPT !.pc = "returned", !.text = ret.insert_statements]
    /\ UNCHANGED <<call, providerVars, configVars, runVars, sortVars, migVars,
                   dataVars, processVars>>

InsertNext == InsertEmpty \/ InsertPrepare \/ InsertZeroStep \/ InsertChunk \/ InsertJoin

SpecInsert == InsertInit /\ [][InsertNext]_vars

(***************************************************************************)
(* SpecCount: the row counts of generate_complete_sql for one table, whose *)
(* rows are counted three times: by get_table_count for the totals (0 when *)
(* the count raises), by get_table_schema for the data stage, and by the   *)
(* page fetches of migrate_table_data.  The table may change in between.   *)
(***************************************************************************)
CountMaxRows == 5

CountInit ==
    /\ tables = <<1>>
    /\ foreign_keys = [t \in {1} |-> {}]
    /\ schema_fails = {}
    /\ row_count \in [{1} -> 0..CountMaxRows]
    /\ fetch_fail_at = [t \in {1} |-> 0]
    /\ generators = << >> /\ views = << >>
    /\ batch_size = RunBatch
    /\ include_data = TRUE
    /\ stats = << >> /\ components = << >> /\ result = << >>
    /\ connection = "open" /\ handle = "open" /\ requests = {} /\ pc = "off"
    /\ SortOff
    /\ MigOff
    /\ DataOff
    /\ ProcessOff
    /\ \E counted \in 0..CountMaxRows, fails \in BOOLEAN, fetched \in 0..CountMaxRows :
         call = [counted |-> counted, count_fails |-> fails, actual_rows |-> fetched]
    /\ ret = [pc |-> "totals", stats |-> NewStats, data_sql |-> << >>]

\* FirebirdClient.get_table_count lines 439-448: 0 when the query raises
GetTableCount(counted, fails) == IF fails THEN 0 ELSE counted

\* generate_complete_sql lines 71-81: the total of the counts
CountTotals ==
    /\ ret.pc = "totals"
    /\ ret' = [ret EXCEPT !.pc = "data",
                          !.stats.total_rows =
                              GetTableCount(call.counted, call.count_fails)]
    /\ UNCHANGED <<call, providerVars, configVars, runVars, sortVars, migVars,
                   dataVars, processVars>>

\* generate_complete_sql lines 106-110 and _generate_data_sql lines 265-310
\* for the one table
CountData ==
    /\ ret.pc = "data"
    /\ LET d == DataTableWith(DataBegin, 1,
                    [MigrateArgs(1) EXCEPT !.actual_rows = call.actual_rows])
       IN  ret' = [ret EXCEPT !.pc = "done", !.data_sql = d.sql,
                              !.stats = UpdateStats(@, d.stats)]
    /\ UNCHANGED <<call, providerVars, configVars, runVars, sortVars, migVars,
                   dataVars, processVars>>

CountNext == CountTotals \/ CountData

SpecCount == CountInit /\ [][CountNext]_vars

(***************************************************************************)
(* SpecProgress: a ProgressManager (src/progress_manager.py) and the calls *)
(* of start_conversion, start_table, update_table_progress, finish_table   *)
(* in any order.  ret holds the object's counters, call the last call.     *)
(* The callback and the clock are left out.                                *)
(***************************************************************************)
ProgMaxTables == 2

ProgMaxRows == 3

\* __init__ lines 6-17
NewProgressManager ==
    [current_table |-> 0, processed_tables |-> 0, total_tables |-> 0,
     processed_rows |-> 0, total_rows |-> 0, table_rows |-> 0,
     processed_table_rows |-> 0]

\* start_conversion lines 19-27
StartConversionOf(pm, total_tables, total_rows) ==
    [pm EXCEPT !.total_tables = total_tables, !.total_rows = total_rows,
               !.processed_tables = 0, !.processed_rows = 0]

\* start_table lines 29-35
StartTableOf(pm, table_name, table_row_count) ==
    [pm EXCEPT !.current_table = table_name, !.table_rows = table_row_count,
               !.processed_table_rows = 0]

\* update_table_progress lines 37-52
UpdateTableProgressOf(pm, processed_rows) ==
    LET capped == IF processed_rows > pm.table_rows THEN pm.table_rows
                  ELSE processed_rows
        rows_added == capped - pm.processed_table_rows
    IN  [pm EXCEPT !.processed_table_rows = capped,
                   !.processed_rows = IF pm.processed_rows + rows_added > pm.total_rows
                                      THEN pm.total_rows
                                      ELSE pm.processed_rows + rows_added]

\* finish_table lines 54-61
FinishTableOf(pm) ==
    [pm EXCEPT !.processed_tables = @ + 1, !.current_table = 0,
               !.table_rows = 0, !.processed_table_rows = 0]

\* get_overall_progress lines 63-76, as the fraction num/den (den > 0):
\* 0.3 * processed_tables / total_tables + 0.7 * processed_rows / total_rows,
\* at most 1.0
GetOverallProgress(pm) ==
    IF pm.total_tables = 0 \/ pm.total_rows = 0 THEN [num |-> 0, den |-> 1]
    ELSE LET num == 3 * pm.processed_tables * pm.total_rows
                    + 7 * pm.processed_rows * pm.total_tables
             den == 10 * pm.total_tables * pm.total_rows
         IN  IF num > den THEN [num |-> 1, den |-> 1] ELSE [num |-> num, den |-> den]

ProgressInit ==
    /\ ProviderOff /\ RunOff /\ SortOff /\ MigOff /\ DataOff /\ ProcessOff
    /\ call = [op |-> "init", arg |-> 0]
    /\ ret = NewProgressManager

StartConversion ==
    /\ \E total_tables \in 0..ProgMaxTables, total_rows \in 0..ProgMaxRows :
         /\ ret' = StartConversionOf(ret, total_tables, total_rows)
         /\ call' = [op |-> "start_conversion", arg |-> total_rows]
    /\ UNCHANGED <<providerVars, configVars, runVars, sortVars, migVars,
                   dataVars, processVars>>

StartTable ==
    /\ \E table_row_count \in 0..ProgMaxRows :
         /\ ret' = StartTableOf(ret, 1, table_row_count)
         /\ call' = [op |-> "start_table", arg |-> table_row_count]
    /\ UNCHANGED <<providerVars, configVars, runVars, sortVars, migVars,
                   dataVars, processVars>>

UpdateTableProgress ==
    /\ \E processed_rows \in 0..(ProgMaxRows + 1) :
         /\ ret' = UpdateTableProgressOf(ret, processed_rows)
         /\ call' = [op |-> "update_table_progress", arg |-> processed_rows]
    /\ UNCHANGED <<providerVars, configVars, runVars, sortVars, migVars,
                   dataVars, processVars>>

\* the calls of finish_table counted are at most ProgMaxTables + 1
FinishTable ==
    /\ ret.processed_tables <= ProgMaxTables
    /\ ret' = FinishTableOf(ret)
    /\ call' = [op |-> "finish_table", arg |-> 0]
    /\ UNCHANGED <<providerVars, configVars, runVars, sortVars, migVars,
                   dataVars, processVars>>

ProgressNext == StartConversion \/ StartTable \/ UpdateTableProgress \/ FinishTable

SpecProgress == ProgressInit /\ [][ProgressNext]_vars

(***************************************************************************)
(* The foreign-key graph as the provider delivers it, for the claims:      *)
(* the targets of t inside the table list, t itself left out.              *)
(***************************************************************************)
FkTargetsInList(t) == {d \in foreign_keys[t] : d \in Range(tables) /\ d # t}

\* a non-empty set of tables each of which has a target inside the set
GraphHasCycle ==
    \E S \in SUBSET Range(tables) :
        S # {} /\ \A t \in S : FkTargetsInList(t) \cap S # {}

EachTableOnce(s) ==
    /\ Len(s) = Len(tables)
    /\ \A t \in Range(tables) : Occurrences(s, t) = 1

(***************************************************************************)
(* C1: for every list of distinct table names and every foreign-key graph  *)
(* (self-references, targets outside the list, cycles, failing schema      *)
(* lookups) the list _sort_tables_by_dependencies returns is a permutation *)
(* of its input: no table omitted, none twice.                             *)
(***************************************************************************)
C1_SortReturnsPermutation ==
    sort_pc = "returned" => EachTableOnce(sorted_tables)

C1_Witness ==
    /\ sort_pc = "returned"
    /\ Len(tables) = SortMaxTables
    /\ schema_fails # {}
    /\ cycle_logged
    /\ \E t \in Range(tables) : 0 \in foreign_keys[t] \/ t \in foreign_keys[t]

(***************************************************************************)
(* C2: for an acyclic foreign-key graph every table is placed strictly     *)
(* after every other table of the list that one of its foreign keys        *)
(* targets; self-references and targets outside the list impose nothing.   *)
(* (A table whose lookup raised has delivered no foreign key.)             *)
(***************************************************************************)
C2_AcyclicOrderRespectsForeignKeys ==
    (sort_pc = "returned" /\ ~GraphHasCycle) =>
        \A t \in Range(tables) : \A d \in FkTargetsInList(t) :
            /\ Pos(sorted_tables, d) > 0
            /\ Pos(sorted_tables, d) < Pos(sorted_tables, t)

C2_Witness ==
    /\ sort_pc = "returned"
    /\ ~GraphHasCycle
    /\ \E t, u, v \in Range(tables) :
         /\ t # u /\ u # v /\ t # v
         /\ u \in FkTargetsInList(t)
         /\ v \in FkTargetsInList(u)
         /\ (v \in foreign_keys[v] \/ 0 \in foreign_keys[v])
         /\ Pos(sorted_tables, v) < Pos(sorted_tables, u)
         /\ Pos(sorted_tables, u) < Pos(sorted_tables, t)

(***************************************************************************)
(* C3: with a cycle in the graph the sort still returns every table        *)
(* exactly once, and the loop ends because no table remains, not because   *)
(* the bound of twice the table count was reached.                         *)
(***************************************************************************)
C3_CycleStillPlacesAllTables ==
    (sort_pc = "returned" /\ GraphHasCycle) =>
        /\ remaining_tables = {}
        /\ iteration < max_iterations
        /\ EachTableOnce(sorted_tables)

C3_Witness ==
    /\ sort_pc = "returned"
    /\ GraphHasCycle
    /\ cycle_logged
    /\ Len(tables) = SortMaxTables
    /\ iteration >= 2

(***************************************************************************)
(* C7: for every row count N >= 0 and every page size P >= 1, P < 4        *)
(* included, with a provider that returns min(P, N - offset) rows per      *)
(* page, migrate_table_data makes exactly ceil(N/P) provider calls, at the *)
(* offsets 0, P, 2P, ..., and renders exactly N row tuples; validation     *)
(* warnings remove no row.                                                 *)
(***************************************************************************)
CooperativeProvider ==
    mig_args.actual_rows = mig_args.total_rows /\ mig_args.fetch_fail_at = 0

C7_PagesAndRowsForEveryPageSize ==
    (mig.pc \in {"returned", "raised"} /\ CooperativeProvider) =>
        /\ mig.pc = "returned"
        /\ mig.calls = [k \in 1..CeilDiv(mig_args.total_rows, mig_args.batch_size)
                          |-> (k - 1) * mig_args.batch_size]
        /\ RenderedRows(mig.result) = [i \in 1..mig_args.total_rows |-> i]

(***************************************************************************)
(* C4: when the dependency ordering meets a cycle, a warning is recorded   *)
(* for the run: the warning list of the diagnostics returned by            *)
(* generate_complete_sql holds an entry for the cycle.                     *)
(***************************************************************************)
C4_CycleWarningInDiagnostics ==
    (pc = "ret_ok" /\ cycle_logged) =>
        \E i \in 1..Len(stats.warnings) : stats.warnings[i].kind = "dependencia_circular"

(***************************************************************************)
(* C5: in the script of a successful run the sections come in the order    *)
(* preamble, sequences, table definitions, views, data, constraints and    *)
(* indexes, statistics footer; so no foreign-key or index statement        *)
(* precedes a data statement and every create-statement of a table         *)
(* precedes every data statement.                                          *)
(***************************************************************************)
SectionOf(kind) ==
    CASE kind = "header" -> 0
      [] kind \in {"sequences_header", "create_sequence", "setval"} -> 1
      [] kind \in {"schema_header", "table_comment", "create_table"} -> 2
      [] kind \in {"views_header", "view_comment", "create_view"} -> 3
      [] kind \in {"data_header", "vazia", "inicio", "BEGIN", "COMMIT", "avisos",
                   "mais_avisos", "lote", "insert", "concluida"} -> 4
      [] kind \in {"constraints_header", "constraints_comment", "create_index",
                   "foreign_key"} -> 5
      [] kind = "footer" -> 6
      [] OTHER -> -1

KindsOf(text) == {text[i].kind : i \in 1..Len(text)}

C5_SectionsInFixedOrder ==
    pc = "ret_ok" =>
        /\ Len(result) >= 2
        /\ result[1].kind = "header"
        /\ result[Len(result)].kind = "footer"
        /\ \A i, j \in 1..Len(result) :
             (i < j /\ result[i].kind # "" /\ result[j].kind # "")
                => SectionOf(result[i].kind) <= SectionOf(result[j].kind)
        /\ \A i, j \in 1..Len(result) :
             (result[j].kind = "insert"
                /\ result[i].kind \in {"create_table", "create_index", "foreign_key"})
                => (i < j <=> result[i].kind = "create_table")

C5_Witness ==
    /\ pc = "ret_ok"
    /\ {"create_sequence", "create_table", "create_view", "insert", "create_index",
        "foreign_key"} \subseteq KindsOf(result)

(***************************************************************************)
(* C9: if the provider cannot be reached (connect returns false, or the    *)
(* connection test reports an error) generate_complete_sql returns the     *)
(* empty text at once, the error list has grown by exactly one entry, and  *)
(* no schema, view, generator or row request has been made.                *)
(***************************************************************************)
ContentRequests ==
    {"get_tables", "get_views", "get_generators", "get_table_count",
     "get_table_schema", "view_source", "get_table_data_batch"}

C9_UnreachableProviderAbortsAtOnce ==
    /\ pc \in {"ret_connect", "ret_test"} =>
          /\ result = << >>
          /\ Len(stats.errors) = 1
          /\ requests \cap ContentRequests = {}
          /\ components = << >>
    /\ (stats.errors # << >> /\ stats.errors[1].kind \in {"falha_conectar", "erro_conexao"})
          => pc \in {"ret_connect", "ret_test"}

C9_Witness ==
    /\ pc = "ret_test"
    /\ tables # << >> /\ views # << >> /\ generators # << >>
    /\ stats.errors = <<Note("erro_conexao", 0)>>

(***************************************************************************)
(* C10: generate_complete_sql propagates no exception and on every path    *)
(* returns the text produced so far with the diagnostics: after an         *)
(* unexpected exception the returned text holds the components the stages  *)
(* had produced.                                                           *)
(***************************************************************************)
C10_ExceptionReturnsTextProducedSoFar ==
    pc = "ret_exception" =>
        \A i \in 1..Len(components) :
            \E j \in 1..Len(result) : result[j] = components[i]

(***************************************************************************)
(* C6: translation is deterministic: two runs of generate_complete_sql     *)
(* over the same provider contents produce the same output; the order of   *)
(* the tables' data blocks is the same in both runs, also among tables     *)
(* that become ready in the same ordering round.  Stated for two           *)
(* successful runs, each on a new SQLGenerator.                            *)
(***************************************************************************)
C6_TwoRunsSameOutput ==
    (runs >= 2 /\ object_calls = 1 /\ pc = "ret_ok"
       /\ previous.pc = "ret_ok" /\ Len(previous.stats.errors) = 0)
        => result = previous.result

(***************************************************************************)
(* C8: if fetching or rendering a page of table T fails, only T is         *)
(* aborted: migrate_table_data propagates the exception, _generate_data_sql*)
(* appends exactly one error naming T, no data text of T enters the        *)
(* output, and every table after T in the order is still processed.        *)
(***************************************************************************)
Pages(t) == CeilDiv(row_count[t], batch_size)

\* a page fetch of t raises, or rendering raises (page size below ChunkDivisor)
PageFault(t) ==
    /\ t \notin schema_fails
    /\ row_count[t] > 0
    /\ fetch_fail_at[t] \in 1..Pages(t) \/ batch_size < ChunkDivisor

ErrorsNaming(t) ==
    {i \in 1..Len(data.stats.errors) : data.stats.errors[i] = Note("erro_dados", t)}

TextOf(t) == {i \in 1..Len(data.sql) : data.sql[i].table = t}

Processed(t) == TextOf(t) # {} \/ ErrorsNaming(t) # {}

C8_PageFailureAbortsOnlyItsTable ==
    data_pc = "returned" =>
        \A k \in 1..Len(sorted_tables) :
            LET T == sorted_tables[k]
            IN  PageFault(T) =>
                  /\ MigrateRun(MigrateBegin, MigrateArgs(T)).pc = "raised"
                  /\ Cardinality(ErrorsNaming(T)) = 1
                  /\ TextOf(T) = {}
                  /\ \A j \in (k + 1)..Len(sorted_tables) : Processed(sorted_tables[j])

C8_Witness ==
    /\ data_pc = "returned"
    /\ \E k, j \in 1..Len(sorted_tables) :
         /\ k < j
         /\ PageFault(sorted_tables[k])
         /\ fetch_fail_at[sorted_tables[k]] = 2
         /\ \E i \in TextOf(sorted_tables[j]) : data.sql[i].kind = "insert"

(***************************************************************************)
(* C11: tables are processed independently: an error recorded for one      *)
(* table's schema (or for a sequence or a view) does not keep the data of  *)
(* any other table out of the output when data inclusion is requested.     *)
(***************************************************************************)
HealthyWithRows ==
    {t \in Range(tables) : t \notin schema_fails /\ row_count[t] > 0
                           /\ fetch_fail_at[t] = 0}

C11_ErrorElsewhereKeepsTableData ==
    (pc = "ret_ok" /\ include_data) =>
        \A t \in HealthyWithRows :
            \E i \in 1..Len(result) : result[i].kind = "insert" /\ result[i].table = t

(***************************************************************************)
(* C12: within one run every processed-count of the statistics never       *)
(* decreases across the stage updates, and the error and warning lists     *)
(* are append-only: a step keeps the old list as a prefix of the new one.  *)
(***************************************************************************)
ProcessedCounts ==
    {"processed_tables_schema", "processed_tables_data", "processed_rows",
     "processed_sequences", "processed_views"}

IsPrefix(s, t) == Len(s) <= Len(t) /\ \A i \in 1..Len(s) : s[i] = t[i]

C12_CountsMonotoneListsAppendOnly ==
    [][ /\ \A k \in ProcessedCounts : stats[k] <= stats'[k]
        /\ IsPrefix(stats.errors, stats'.errors)
        /\ IsPrefix(stats.warnings, stats'.warnings) ]_vars

C12_Witness ==
    /\ pc = "ret_ok"
    /\ Len(stats.errors) >= 2
    /\ Len(stats.warnings) >= 1 \/ stats.processed_sequences > 0
    /\ stats.processed_tables_schema > 0

(***************************************************************************)
(* C13: the statistics are reset at the start of a new run: after a second *)
(* call of generate_complete_sql on the same SQLGenerator the processed    *)
(* counts and the error list reflect the second run only.  Stated for a    *)
(* second call that succeeds over healthy tables: it counts each table     *)
(* once and reports no error.                                              *)
(***************************************************************************)
C13_SecondCallStartsFromZero ==
    (object_calls >= 2 /\ pc = "ret_ok") =>
        /\ stats.processed_tables_schema = Len(tables)
        /\ stats.errors = << >>
        /\ include_data => stats.processed_rows = stats.total_rows

(***************************************************************************)
(* C14: the diagnostics returned by generate_complete_sql expose the       *)
(* number of constraints processed, equal to the number of constraint and  *)
(* index statements the constraints stage emitted.                         *)
(***************************************************************************)
C14_ConstraintCountInDiagnostics ==
    pc = "ret_ok" =>
        /\ "processed_constraints" \in DOMAIN stats
        /\ stats["processed_constraints"] =
             Cardinality({i \in 1..Len(result) :
                            result[i].kind \in {"create_index", "foreign_key"}})

(***************************************************************************)
(* C15: for every column type hint a null value is serialized as NULL in   *)
(* SQL-literal mode and as \N in bulk-field mode; a row that lacks a key   *)
(* of the column list is rendered as null in both modes.                   *)
(***************************************************************************)
NullCase == ~call.row.has_key \/ call.row.value.t = "none"

C15_NullInBothModes ==
    (ret # << >> /\ NullCase) =>
        /\ ret.insert.done => (~ret.insert.raised /\ ret.insert.text = <<"N", "U", "L", "L">>)
        /\ ret.copy.done => (~ret.copy.raised /\ ret.copy.text = <<BS, "N">>)

C15_Witness ==
    /\ ret # << >> /\ ret.insert.done /\ ret.copy.done
    /\ ~call.row.has_key
    /\ call.column_type = NumericType

(***************************************************************************)
(* C16: round trip of text serialization: for every text over the single   *)
(* quote, the backslash, the newline and ordinary characters, stripping    *)
(* the prefix and the outer quotes of the literal and undoing its escapes  *)
(* (doubled quote, doubled backslash, backslash-n), read from left to      *)
(* right, gives back the original text.                                    *)
(***************************************************************************)
StripLiteral(text) ==
    IF Head(text) = "E" THEN SubSeq(text, 3, Len(text) - 1)
    ELSE SubSeq(text, 2, Len(text) - 1)

RECURSIVE UndoEscapes(_)
UndoEscapes(s) ==
    IF s = << >> THEN << >>
    ELSE IF StartsWith(s, <<SQ, SQ>>) THEN <<SQ>> \o UndoEscapes(SubSeq(s, 3, Len(s)))
    ELSE IF StartsWith(s, <<BS, BS>>) THEN <<BS>> \o UndoEscapes(SubSeq(s, 3, Len(s)))
    ELSE IF StartsWith(s, <<BS, "n">>) THEN <<NL>> \o UndoEscapes(SubSeq(s, 3, Len(s)))
    ELSE <<Head(s)>> \o UndoEscapes(Tail(s))

TextCase == ret # << >> /\ call.row.has_key /\ call.row.value.t = "str" /\ ret.insert.done

C16_TextRoundTrip ==
    TextCase =>
        /\ ~ret.insert.raised
        /\ UndoEscapes(StripLiteral(ret.insert.text)) = call.row.value.s

C16_Witness ==
    /\ TextCase
    /\ {SQ, BS, NL} \subseteq Range(call.row.value.s)

(***************************************************************************)
(* C17: a boolean value is serialized as the boolean literal in both       *)
(* modes: TRUE or FALSE in SQL-literal mode, t or f in bulk-field mode,    *)
(* and never through the integer branch.                                   *)
(***************************************************************************)
BoolCase == ret # << >> /\ call.row.has_key /\ call.row.value.t = "bool"

C17_BooleanLiteralInBothModes ==
    BoolCase =>
        /\ ret.insert.done =>
             /\ ~ret.insert.raised
             /\ ret.insert.text = (IF call.row.value.b THEN <<"T", "R", "U", "E">>
                                   ELSE <<"F", "A", "L", "S", "E">>)
        /\ ret.copy.done =>
             /\ ~ret.copy.raised
             /\ ret.copy.text = (IF call.row.value.b THEN <<"t">> ELSE <<"f">>)

(***************************************************************************)
(* C18: map_data_type is total: for every type code and every length,      *)
(* precision, scale and subtype, missing ones included, it returns a       *)
(* non-empty type string and never raises; an unrecognized code maps to    *)
(* text, and a rule that fails on a missing precision or scale degrades    *)
(* to text.                                                                *)
(***************************************************************************)
MapTypeDone == ret # << >> /\ "type" \in DOMAIN ret /\ ret.done

RuleFailsOnMissingArg ==
    \/ call.firebird_type = 64 /\ call.precision.none
    \/ call.firebird_type = 64 /\ ~call.precision.none /\ call.precision.n > 0
         /\ call.scale.none
    \/ call.firebird_type \in {7, 8, 16} /\ call.scale.none

C18_MapDataTypeTotal ==
    MapTypeDone =>
        /\ ~ret.raised
        /\ ret.type.base # ""
        /\ call.firebird_type \in UnknownCodes => ret.type = TypeString("text", << >>)
        /\ RuleFailsOnMissingArg => ret.type = TypeString("text", << >>)

C18_Witness ==
    /\ MapTypeDone
    /\ call.firebird_type = 64 /\ call.precision.none
    /\ call.length.none /\ call.scale.none /\ call.subtype.none

\* text occurs in sql, token for token
Occurs(text, sql) ==
    \E i \in 1..(Len(sql) - Len(text) + 1) : SubSeq(sql, i, i + Len(text) - 1) = text

TranspileDone == ret.pc = "done"

ScenarioScript == JoinLines(<<CommentLine, ScenarioSelect>>)
ScenarioLiteral == SubSeq(ScenarioSelect, 3, 16)

\* C19: for the script "-- comment", newline, "SELECT 'it''s -- not a comment'
\* FROM t;" the text convert_sql_script returns holds no comment line and
\* holds the literal 'it''s -- not a comment' unchanged, with its doubled
\* quote and its embedded --.
C19_ScenarioLiteralVerbatim ==
    (TranspileDone /\ call.sql_content = ScenarioScript)
    => /\ ~Occurs(CommentLine, ret.sql)
       /\ Occurs(ScenarioLiteral, ret.sql)

\* the block-level declarations of the scripts, each with the note its
\* conversion appends
Declarations ==
    {[text |-> DomainKnown, name |-> "D_X", kind |-> "domain_convertido"],
     [text |-> DomainUnknown, name |-> "D_Y", kind |-> "domain_convertido"],
     [text |-> TriggerBlock, name |-> "TR", kind |-> "trigger_revisao"],
     [text |-> TriggerMalformed, name |-> "TR2", kind |-> "trigger_revisao"],
     [text |-> ProcedureBlock, name |-> "P", kind |-> "procedure_revisao"],
     [text |-> UdfBlock, name |-> "F", kind |-> "udf_removida"],
     [text |-> IndexBlock, name |-> "I", kind |-> "index"],
     [text |-> IndexMalformed, name |-> "I2", kind |-> "index"]}

Warned(name) == \E x \in 1..Len(ret.warnings) : ret.warnings[x].name = name

Converted(d) ==
    IF d.kind = "index"
    THEN BlockMatch("index", d.text, 1).ok
         /\ Occurs(BlockText("index", d.text, BlockMatch("index", d.text, 1)), ret.sql)
    ELSE \E x \in 1..Len(ret.warnings) : ret.warnings[x] = Note(d.kind, d.name)

\* C20: when convert_sql_script has returned, every domain, trigger,
\* procedure, external function and index declaration of the input has been
\* converted, or is in the output as it was and a warning names it: none is
\* dropped, or left unconverted, without a warning.
C20_NoBlockDroppedSilently ==
    TranspileDone
    => \A d \in Declarations :
          Occurs(d.text, call.sql_content)
          => Converted(d) \/ (Occurs(d.text, ret.sql) /\ Warned(d.name))

\* C21: when a stage of convert_sql_script raises, the text returned is the
\* script as it was passed in and the fault is recorded among the warnings.
C21_FaultReturnsOriginalWithWarning ==
    ret.pc = "failed"
    => /\ ret.sql = call.sql_content
       /\ \E x \in 1..Len(ret.warnings) : ret.warnings[x].kind = "erro_conversao"

SchemaDone == ret.pc = "done"

\* the statements of a kind among those emitted
StatementsOf(kind) ==
    SelectSeq(ret.statements, LAMBDA st : st.kind = kind)

\* C22: generate_constraints emits no CREATE UNIQUE INDEX for a unique
\* index whose columns are the primary-key columns, and one for every other
\* named unique index the provider delivers.
C22_PrimaryKeyIndexNotEmitted ==
    SchemaDone
    => \A x \in 1..Len(call.table_schema.indexes) :
          LET idx == call.table_schema.indexes[x]
              backs_key == /\ call.table_schema.primary_key # << >>
                           /\ idx.fields = call.table_schema.primary_key
              emitted == \E y \in 1..Len(StatementsOf("unique_index")) :
                            StatementsOf("unique_index")[y].name = QuotedLower(idx.name)
          IN  idx.unique => (emitted <=> ~backs_key)

\* the column identifiers of a check condition: a column name, in double
\* quotes or not
ConditionIdents(condition) ==
    {Ident(condition[x], x > 1 /\ condition[x - 1] = DQ /\ At(condition, x + 1) = DQ) :
        x \in {y \in 1..Len(condition) : Upper(condition[y]) \in Range(ColumnNames)}}

\* the sequence names of the nextval('...') calls of a text
SequenceRefs(text) ==
    {text[x] : x \in {y \in 4..Len(text) :
                        text[y - 1] = SQ /\ text[y - 2] = "(" /\ text[y - 3] = "nextval"}}

\* C24: the column identifiers of a table's insert, index, foreign-key and
\* check statements (those rewritten from NEW.<column> included) are the
\* lower-cased, double-quoted identifiers of its create statement, and the
\* sequence names of the defaults and of the views are the names of the
\* create-sequence statements.
C24_IdentifiersAgree ==
    SchemaDone
    => LET declared == Range(StatementsOf("create_table")[1].columns)
           sequences == {StatementsOf("create_sequence")[x].name.text :
                           x \in 1..Len(StatementsOf("create_sequence"))}
       IN  /\ \A x \in 1..Len(ret.statements) :
                 LET st == ret.statements[x]
                 IN  /\ st.kind \in {"insert", "unique_index", "index", "foreign_key"}
                        => Range(st.columns) \subseteq declared
                     /\ st.kind = "check" => ConditionIdents(st.condition) \subseteq declared
                     /\ st.kind = "view" => SequenceRefs(st.condition) \subseteq sequences
                     /\ st.kind = "create_table"
                        => \A c \in 1..Len(st.defaults) :
                              SequenceRefs(st.defaults[c]) \subseteq sequences

\* the pages rendered by a call: its insert and bulk-load items
RenderedPages(text) ==
    SelectSeq(text, LAMBDA it : it.kind \in {"insert", "copy"})

ScanRegions(sc) ==
    {r \in {"string", "line", "block"} :
        \/ r = "string" /\ sc.in_string
        \/ r = "line" /\ sc.in_line_comment
        \/ r = "block" /\ sc.in_block_comment}

\* what a pass of the scan read from the text and what it put out
Consumed(before, after, sql) == SubSeq(sql, before.i, after.i - 1)
Copied(before, after) == SubSeq(after.result, Len(before.result) + 1, Len(after.result))

\* a pass of the scan keeps the regions' rules
ScanPassKeepsRegions(before, after, sql) ==
    /\ after.i > before.i
    /\ SubSeq(after.result, 1, Len(before.result)) = before.result
    /\ before.in_string
       => /\ Copied(before, after) = Consumed(before, after, sql)
          /\ ScanRegions(after) \subseteq {"string"}
          /\ after.in_string
             <=> ~(Consumed(before, after, sql) = <<before.string_char>>)
    /\ (ScanRegions(before) = {} /\ after.in_string)
       => Copied(before, after) = Consumed(before, after, sql)
    /\ before.in_line_comment
       => Copied(before, after)
            = (IF Consumed(before, after, sql) = <<NL>> THEN <<NL>> ELSE << >>)
    /\ before.in_block_comment => Copied(before, after) = << >>
    /\ (ScanRegions(before) = {} /\ ScanRegions(after) \cap {"line", "block"} # {})
       => Copied(before, after) = << >>

\* C25: at every step of _remove_comments_preserve_strings at most one of
\* in-string, in-line-comment, in-block-comment holds; what is read inside a
\* string (a doubled quote read as one escaped quote, -- and /* opening
\* nothing) is copied unchanged and in order, the quotes included; nothing
\* read inside a comment is copied except the newline that ends a line
\* comment; and the scan returns for every text, also with a string or a
\* block comment left open.
C25_ScanRegionsExclusive ==
    /\ [](Cardinality(ScanRegions(ret.sc)) <= 1)
    /\ [][ScanPassKeepsRegions(ret.sc, ret'.sc, call.sql)]_<<ret.sc>>
    /\ <>(ret.pc = "done")

\* a returned scan of a string that holds a comment mark, a doubled quote or
\* the other quote character, copied whole
C25_Witness ==
    /\ ret.pc = "done"
    /\ Len(call.sql) >= 4
    /\ call.sql[1] \in {SQ, DQ}
    /\ call.sql[4] = call.sql[1]
    /\ \/ <<call.sql[2], call.sql[3]>> \in {<<"-", "-">>, <<"/", "*">>}
       \/ call.sql[2] = call.sql[1] /\ call.sql[3] = call.sql[1]
    /\ ret.text = call.sql

\* the row tuples of a list of insert statements, in order
RECURSIVE InsertedRows(_)
InsertedRows(statements) ==
    IF statements = << >> THEN << >>
    ELSE Head(statements).values_lines \o InsertedRows(Tail(statements))

\* C26: for a page size B >= 4 generate_insert_statements cuts a non-empty
\* page into ceil(len(page)/c) statements, c = min(500, B div 4), each with
\* the column list once and between 1 and c row tuples, whose row tuples in
\* order are the page's rows, each once; an empty page gives the empty text.
C26_InsertChunksPartitionPage ==
    (ret.pc = "returned" /\ call.batch_size >= 4)
    => IF call.data_batch = << >> THEN ret.text = << >>
       ELSE LET c == IF call.batch_size \div 4 < 500
                     THEN call.batch_size \div 4 ELSE 500
                n == Len(call.data_batch)
            IN  /\ Len(ret.text) = (n + c - 1) \div c
                /\ \A k \in 1..Len(ret.text) :
                      /\ Len(ret.text[k].values_lines) \in 1..c
                      /\ ret.text[k].columns
                           = [x \in 1..Len(call.columns) |->
                                 QuotedLower(call.columns[x])]
                /\ InsertedRows(ret.text) = call.data_batch

\* a page cut into several statements, the last shorter than the others
C26_Witness ==
    /\ ret.pc = "returned"
    /\ call.batch_size >= 4
    /\ Len(ret.text) >= 2
    /\ Len(ret.text[1].values_lines) >= 2
    /\ Len(ret.text[Len(ret.text)].values_lines) < Len(ret.text[1].values_lines)

(***************************************************************************)
(* SpecSortCycle: _sort_tables_by_dependencies on the table lists whose    *)
(* foreign keys form at least one cycle; every schema lookup succeeds.     *)
(***************************************************************************)
SortCycleTables == 4

SortCycleFks == 3

SortCycleInit ==
    /\ \E n \in 2..SortCycleTables :
         /\ tables = [i \in 1..n |-> i]
         /\ foreign_keys \in ProviderGraphs(n, SortCycleFks)
    /\ schema_fails = {}
    /\ GraphHasCycle
    /\ table_dependencies = << >>
    /\ sorted_tables = << >>
    /\ remaining_tables = {}
    /\ iteration = 0
    /\ max_iterations = 0
    /\ cycle_logged = FALSE
    /\ sort_pc = "build"
    /\ row_count = << >> /\ fetch_fail_at = << >>
    /\ generators = << >> /\ views = << >>
    /\ RunOff
    /\ MigOff
    /\ DataOff
    /\ ProcessOff
    /\ CallOff

SpecSortCycle == SortCycleInit /\ [][SortNext]_vars

\* the tables t depends on, directly or transitively, by the foreign keys
\* inside the table list
RECURSIVE ReachFrom(_, _)
ReachFrom(frontier, seen) ==
    LET next == (UNION {FkTargetsInList(u) : u \in frontier}) \ seen
    IN  IF next = {} THEN seen ELSE ReachFrom(next, seen \cup next)

TransitiveTargets(t) == ReachFrom({t}, {})

OnCycle(t) == t \in TransitiveTargets(t)

\* t is on a cycle or depends on a table of a cycle
DependsOnCycle(t) == OnCycle(t) \/ \E u \in TransitiveTargets(t) : OnCycle(u)

\* C27: the batch of the pass of _sort_tables_by_dependencies that gives
\* up (the pass that logs the circular dependency) holds only tables that
\* are on a cycle or depend on a table of a cycle; every table that does not
\* has been placed in an earlier pass, and is placed in a pass after the
\* passes of all tables it depends on.
C27_GiveUpBatchDependsOnCycle ==
    [][(sort_pc = "loop" /\ iteration' = iteration + 1)
       => LET placed == Range(sorted_tables)
              batch == Range(sorted_tables') \ placed
              gives_up == cycle_logged' /\ ~cycle_logged
          IN  /\ gives_up => \A t \in batch : DependsOnCycle(t)
              /\ gives_up => \A t \in Range(tables) : ~DependsOnCycle(t) => t \in placed
              /\ \A t \in batch :
                    ~DependsOnCycle(t) => FkTargetsInList(t) \subseteq placed]_vars

\* a returned sort that gave up on a cycle, with a table off the cycles that
\* depends on another table
C27_Witness ==
    /\ sort_pc = "returned"
    /\ cycle_logged
    /\ \E t \in Range(tables) :
         /\ ~DependsOnCycle(t)
         /\ FkTargetsInList(t) # {}
         /\ \A d \in FkTargetsInList(t) : Pos(sorted_tables, d) < Pos(sorted_tables, t)
         /\ \E u \in Range(tables) :
               DependsOnCycle(u) /\ Pos(sorted_tables, t) < Pos(sorted_tables, u)

\* C28: the processed_rows of the diagnostics is the number of row tuples
\* rendered into the data text and is at most the total_rows of the
\* diagnostics, also when a page comes back empty or short and when the
\* count for the totals could not be obtained.
C28_ProcessedRowsAreRenderedRows ==
    ret.pc = "done"
    => /\ ret.stats.processed_rows = Len(RenderedRows(ret.data_sql))
       /\ ret.stats.processed_rows <= ret.stats.total_rows

\* C29: when generate_complete_sql has returned, by a failed connect, a
\* failed connection test, the combined text or the handler of an unexpected
\* exception, firebird_client.connection is unset, also when closing the
\* fdb connection raised.
C29_ConnectionUnsetOnReturn == Returned => connection = "none"

\* a run that opened the connection, met an unexpected exception, and whose
\* close of the fdb connection raised
C29_Witness ==
    /\ pc = "ret_exception"
    /\ "test_connection" \in requests
    /\ handle = "open"
    /\ connection = "none"

\* C30: after any sequence of start_conversion, start_table,
\* update_table_progress (any non-negative argument) and finish_table,
\* processed_rows is within 0..total_rows, processed_table_rows is within
\* 0..table_rows, and the overall progress is between 0 and 1.
C30_ProgressWithinBounds ==
    /\ ret.processed_rows \in 0..ret.total_rows
    /\ ret.processed_table_rows \in 0..ret.table_rows
    /\ GetOverallProgress(ret).num >= 0
    /\ GetOverallProgress(ret).num <= GetOverallProgress(ret).den

=============================================================================
